---- MODULE Spec2Model ----
(***************************************************************************)
(* Model of the polar-cli output engine (src/output/*.ts), the operation   *)
(* handler (src/resources/handler.ts) and the command action               *)
(* (src/commands/register.ts).                                             *)
(*                                                                         *)
(* JavaScript strings are TLA+ strings; a JavaScript value is a record     *)
(* [t, s, n, e]: t is the runtime type, s the text of a string, n the      *)
(* number (or 1/0 for a boolean), e the entries <<key, value>> of an       *)
(* object in property order (for an array: its elements, each under the    *)
(* placeholder key "#").  A Record<string, unknown> is its sequence of     *)
(* entries.                                                                *)
(***************************************************************************)
EXTENDS Integers, Sequences, FiniteSets, TLC

(***************************************************************************)
(* Bounds of the checked instance.                                         *)
(***************************************************************************)
MaxItems == 2
MaxPage == 2
MaxLimit == 2
MaxTotal == 3

(***************************************************************************)
(* JavaScript values.                                                      *)
(***************************************************************************)
VStr(s) == [t |-> "string", s |-> s, n |-> 0, e |-> <<>>]
VNum(n) == [t |-> "number", s |-> "", n |-> n, e |-> <<>>]
VBool(b) == [t |-> "boolean", s |-> "", n |-> IF b THEN 1 ELSE 0, e |-> <<>>]
VNull == [t |-> "null", s |-> "", n |-> 0, e |-> <<>>]
VUndef == [t |-> "undefined", s |-> "", n |-> 0, e |-> <<>>]
VObj(entries) == [t |-> "object", s |-> "", n |-> 0, e |-> entries]
VArr(elems) ==
    [t |-> "array", s |-> "", n |-> 0,
     e |-> [i \in 1..Len(elems) |-> <<"#", elems[i]>>]]

\* key in obj
Has(obj, key) == \E i \in 1..Len(obj) : obj[i][1] = key

\* obj[key]
Get(obj, key) ==
    IF Has(obj, key)
    THEN obj[CHOOSE i \in 1..Len(obj) : obj[i][1] = key][2]
    ELSE VUndef

\* obj[key] = value : an existing property keeps its place, a new one is last
Put(obj, key, value) ==
    IF Has(obj, key)
    THEN [i \in 1..Len(obj) |->
            IF obj[i][1] = key THEN <<key, value>> ELSE obj[i]]
    ELSE Append(obj, <<key, value>>)

\* Object.keys(obj)
Keys(obj) == [i \in 1..Len(obj) |-> obj[i][1]]

(***************************************************************************)
(* JavaScript string primitives.                                           *)
(***************************************************************************)
Min(a, b) == IF a < b THEN a ELSE b
Max(a, b) == IF a > b THEN a ELSE b

At(s, i) == SubSeq(s, i, i)

\* s.slice(0, n)
Slice(s, n) == SubSeq(s, 1, Min(n, Len(s)))

\* s.includes(sub)
Includes(s, sub) ==
    \E i \in 1..(Len(s) - Len(sub) + 1) : SubSeq(s, i, i + Len(sub) - 1) = sub

DigitChars == "0123456789"

IsDigit(c) == \E i \in 1..10 : At(DigitChars, i) = c

\* String(n) for an integer n
RECURSIVE NatStr(_)
NatStr(n) ==
    IF n < 10 THEN At(DigitChars, n + 1)
    ELSE NatStr(n \div 10) \o At(DigitChars, (n % 10) + 1)

IntStr(n) == IF n < 0 THEN "-" \o NatStr(0 - n) ELSE NatStr(n)

\* parts[lo] sep parts[lo+1] sep ... parts[hi], by halves
RECURSIVE JoinRange(_, _, _, _)
JoinRange(parts, sep, lo, hi) ==
    IF lo > hi THEN ""
    ELSE IF lo = hi THEN parts[lo]
    ELSE LET mid == (lo + hi) \div 2
         IN  JoinRange(parts, sep, lo, mid) \o sep
             \o JoinRange(parts, sep, mid + 1, hi)

\* parts.join(sep) for an array of strings
Join(parts, sep) == JoinRange(parts, sep, 1, Len(parts))

\* s.split(sep) for a one-character separator
RECURSIVE Split(_, _)
Split(s, sep) ==
    IF ~Includes(s, sep) THEN <<s>>
    ELSE LET i == CHOOSE k \in 1..Len(s) :
                     /\ At(s, k) = sep
                     /\ \A j \in 1..(k - 1) : At(s, j) # sep
         IN  <<SubSeq(s, 1, i - 1)>> \o Split(SubSeq(s, i + 1, Len(s)), sep)

\* s.trim() (spaces, tabs and newlines)
IsSpace(c) == c = " " \/ c = "\t" \/ c = "\n"

RECURSIVE TrimStart(_)
TrimStart(s) ==
    IF Len(s) > 0 /\ IsSpace(At(s, 1)) THEN TrimStart(Tail(s)) ELSE s

RECURSIVE TrimEnd(_)
TrimEnd(s) ==
    IF Len(s) > 0 /\ IsSpace(At(s, Len(s)))
    THEN TrimEnd(SubSeq(s, 1, Len(s) - 1)) ELSE s

Trim(s) == TrimEnd(TrimStart(s))

\* s.padEnd(w)
RECURSIVE Repeat(_, _)
Repeat(c, n) ==
    IF n <= 0 THEN ""
    ELSE IF n = 1 THEN c
    ELSE LET half == Repeat(c, n \div 2)
         IN  half \o half \o (IF n % 2 = 1 THEN c ELSE "")

PadEnd(s, w) == s \o Repeat(" ", w - Len(s))

(***************************************************************************)
(* src/output/fields.ts                                                    *)
(***************************************************************************)
RESOURCE_DEFAULT_FIELDS ==
    [organization |-> <<"id", "name", "slug", "status">>,
     product |-> <<"id", "name", "isRecurring", "isArchived", "prices",
                   "benefits">>,
     subscription |-> <<"id", "status", "customer", "product",
                        "currentPeriodEnd", "amount", "currency">>,
     order |-> <<"id", "status", "product", "customer", "totalAmount",
                 "currency", "createdAt">>,
     customer |-> <<"id", "email", "name", "type", "createdAt">>,
     checkout |-> <<"id", "status", "products", "totalAmount", "currency",
                    "url">>,
     checkoutLink |-> <<"id", "label", "product", "url", "createdAt">>,
     benefit |-> <<"id", "type", "description", "organizationId">>,
     benefitGrant |-> <<"id", "benefitId", "customerId", "isGranted",
                        "isRevoked">>,
     licenseKey |-> <<"id", "displayKey", "status", "customer", "usage",
                      "limitActivations">>,
     discount |-> <<"id", "name", "type", "amount", "duration", "code">>,
     customField |-> <<"id", "type", "slug", "name">>,
     file |-> <<"id", "name", "mimeType", "size", "createdAt">>,
     refund |-> <<"id", "status", "reason", "amount", "currency", "orderId">>,
     dispute |-> <<"id", "status", "amount", "currency", "orderId">>,
     payment |-> <<"id", "status", "amount", "currency", "method">>,
     meter |-> <<"id", "name", "aggregation", "createdAt">>,
     customerMeter |-> <<"id", "meterId", "customerId", "consumedUnits",
                         "creditedUnits", "balance">>,
     event |-> <<"id", "name", "source", "customerId", "timestamp">>,
     eventType |-> <<"id", "name", "isArchived">>,
     webhook |-> <<"id", "url", "events", "enabled">>,
     member |-> <<"id", "email", "name", "role">>,
     orgToken |-> <<"id", "comment", "scopes", "expiresAt">>]

\* A FieldSelector: an explicit list of names, "all" or "minimal"; the kind
\* "undefined" stands for an absent options.fields.
SelList(names) == [kind |-> "list", names |-> names]
SelAll == [kind |-> "all", names |-> <<>>]
SelMinimal == [kind |-> "minimal", names |-> <<>>]
SelUndefined == [kind |-> "undefined", names |-> <<>>]

getDefaultFields(resource) ==
    IF resource \in DOMAIN RESOURCE_DEFAULT_FIELDS
    THEN RESOURCE_DEFAULT_FIELDS[resource]
    ELSE <<"id">>

identifiers == <<"name", "email", "slug", "displayKey", "key", "url", "label">>

isIdentifying_nullAccepted(data_, key) ==
    Has(data_, key) /\ Get(data_, key).t # "undefined"

\* key in data && data[key] !== null && data[key] !== undefined
isIdentifying(data_, key) ==
    /\ Has(data_, key)
    /\ Get(data_, key).t # "null"
    /\ Get(data_, key).t # "undefined"

isRequested_truthy(data_, field) ==
    Has(data_, field) /\ Get(data_, field).t \notin {"null", "undefined"}

\* field in data
isRequested(data_, field) == Has(data_, field)

\* the loop of the "minimal" branch, from position i of identifiers
RECURSIVE minimalScan(_, _, _)
minimalScan(data_, result, i) ==
    IF i > Len(identifiers) THEN result
    ELSE IF isIdentifying(data_, identifiers[i])
         THEN Put(result, identifiers[i], Get(data_, identifiers[i]))
         ELSE minimalScan(data_, result, i + 1)

\* the loop of the explicit-list branch, from position i of names
RECURSIVE listScan(_, _, _, _)
listScan(data_, names, result, i) ==
    IF i > Len(names) THEN result
    ELSE listScan(data_, names,
                  IF isRequested(data_, names[i])
                  THEN Put(result, names[i], Get(data_, names[i]))
                  ELSE result,
                  i + 1)

selectFields(data_, fields) ==
    IF fields.kind = "all" THEN data_
    ELSE IF fields.kind = "minimal"
         THEN minimalScan(data_, << <<"id", Get(data_, "id")>> >>, 1)
         ELSE listScan(data_, fields.names, <<>>, 1)

(***************************************************************************)
(* src/output/compact.ts                                                   *)
(***************************************************************************)
MAX_STRING_LENGTH == 80

formatValue(value) ==
    IF value.t = "string"
    THEN LET v == IF Len(value.s) > MAX_STRING_LENGTH
                  THEN Slice(value.s, MAX_STRING_LENGTH) \o "..."
                  ELSE value.s
         IN  IF Includes(v, " ") THEN "\"" \o v \o "\"" ELSE v
    ELSE IF value.t = "boolean"
         THEN (IF value.n = 1 THEN "true" ELSE "false")
         ELSE IntStr(value.n)

\* /^\d{4}-\d{2}-\d{2}T\d{2}:\d{2}:\d{2}/.test(value)
isISOTimestamp(value) ==
    /\ value.t = "string"
    /\ Len(value.s) >= 19
    /\ \A i \in {1, 2, 3, 4, 6, 7, 9, 10, 12, 13, 15, 16, 18, 19} :
          IsDigit(At(value.s, i))
    /\ At(value.s, 5) = "-" /\ At(value.s, 8) = "-"
    /\ At(value.s, 11) = "T"
    /\ At(value.s, 14) = ":" /\ At(value.s, 17) = ":"

compressTimestamp(s) == Slice(s, 10)

RECURSIVE flattenObject_emptyKept(_, _)
flattenObject_emptyKept(obj, prefix) ==
    IF Len(obj) = 0 THEN <<>>
    ELSE LET key == obj[1][1]
             value == obj[1][2]
             fullKey == IF prefix # "" THEN prefix \o "." \o key ELSE key
             here ==
                 IF value.t = "null" \/ value.t = "undefined"
                 THEN <<>>
                 ELSE IF value.t = "array"
                 THEN << <<fullKey, VNum(Len(value.e))>> >>
                 ELSE IF value.t = "object"
                 THEN flattenObject_emptyKept(value.e, fullKey)
                 ELSE IF isISOTimestamp(value)
                 THEN << <<fullKey, VStr(compressTimestamp(value.s))>> >>
                 ELSE << <<fullKey, value>> >>
         IN  here \o flattenObject_emptyKept(Tail(obj), prefix)

RECURSIVE flattenObject(_, _)
flattenObject(obj, prefix) ==
    IF Len(obj) = 0 THEN <<>>
    ELSE LET key == obj[1][1]
             value == obj[1][2]
             fullKey == IF prefix # "" THEN prefix \o "." \o key ELSE key
             here ==
                 IF \/ value.t = "null" \/ value.t = "undefined"
                    \/ (value.t = "string" /\ value.s = "")
                 THEN <<>>
                 ELSE IF value.t = "array"
                 THEN << <<fullKey, VNum(Len(value.e))>> >>
                 ELSE IF value.t = "object"
                 THEN flattenObject(value.e, fullKey)
                 ELSE IF isISOTimestamp(value)
                 THEN << <<fullKey, VStr(compressTimestamp(value.s))>> >>
                 ELSE << <<fullKey, value>> >>
         IN  here \o flattenObject(Tail(obj), prefix)

\* fields.includes(key)
InSeq(names, key) == \E i \in 1..Len(names) : names[i] = key

filterFields(entries, fields) ==
    IF fields.kind = "undefined" THEN entries
    ELSE SelectSeq(entries, LAMBDA en : InSeq(fields.names, en[1]))

\* filtered.map(([k, v]) => `${k}=${formatValue(v)}`).join(' ')
pairsOf(data_, fields) ==
    LET filtered == filterFields(flattenObject(data_, ""), fields)
    IN  Join([i \in 1..Len(filtered) |->
                filtered[i][1] \o "=" \o formatValue(filtered[i][2])], " ")

formatCompactItem(type, data_, fields) ==
    type \o " " \o pairsOf(data_, fields)

rangeStart_pageFromZero(page, limit) == page * limit + 1

rangeStart(page, limit) == (page - 1) * limit + 1

hasMorePages_inclusive(rangeEnd, totalCount) == rangeEnd <= totalCount

hasMorePages(rangeEnd, totalCount) == rangeEnd < totalCount

formatCompactList(type, items_, pagination_, fields) ==
    IF pagination_.totalCount = 0 /\ Len(items_) = 0
    THEN type \o " 0/0"
    ELSE LET start == rangeStart(pagination_.page, pagination_.limit)
             rangeEnd == start + Len(items_) - 1
             header == type \o " " \o IntStr(start) \o "-"
                       \o IntStr(rangeEnd) \o "/"
                       \o IntStr(pagination_.totalCount)
                       \o " page=" \o IntStr(pagination_.page)
             itemLines == [i \in 1..Len(items_) |->
                             "  [" \o IntStr(i) \o "] "
                             \o pairsOf(items_[i], fields)]
             hint == "next: polar " \o type \o " list --page "
                     \o IntStr(pagination_.page + 1) \o " --limit "
                     \o IntStr(pagination_.limit)
         IN  Join(<<header>> \o itemLines
                  \o (IF hasMorePages(rangeEnd, pagination_.totalCount)
                      THEN <<hint>> ELSE <<>>), "\n")

formatCompactCount(count) == IntStr(count)

(***************************************************************************)
(* JavaScript conversions used by the renderers.                           *)
(***************************************************************************)
\* String(value); an array converts as elements.join(","), in which null
\* and undefined elements give the empty string
RECURSIVE JSString(_)
JSString(value) ==
    CASE value.t = "string" -> value.s
      [] value.t = "number" -> IntStr(value.n)
      [] value.t = "boolean" -> (IF value.n = 1 THEN "true" ELSE "false")
      [] value.t = "null" -> "null"
      [] value.t = "undefined" -> "undefined"
      [] value.t = "array" ->
            Join([i \in 1..Len(value.e) |->
                    IF value.e[i][2].t \in {"null", "undefined"} THEN ""
                    ELSE JSString(value.e[i][2])], ",")
      [] OTHER -> "[object Object]"

\* the text one element contributes to Array.prototype.join
JoinElem(value) ==
    IF value.t \in {"null", "undefined"} THEN "" ELSE JSString(value)

\* the JSON text of a string: quotes, backslashes and control characters
\* are escaped
JSONEscape(s) ==
    Join([i \in 1..Len(s) |->
            CASE At(s, i) = "\"" -> "\\\""
              [] At(s, i) = "\\" -> "\\\\"
              [] At(s, i) = "\n" -> "\\n"
              [] At(s, i) = "\t" -> "\\t"
              [] OTHER -> At(s, i)], "")

\* JSON.stringify(value): a property whose value is undefined is left out
\* of an object, an undefined array element is written null
RECURSIVE JSONStringify(_)
JSONStringify(value) ==
    CASE value.t = "string" -> "\"" \o JSONEscape(value.s) \o "\""
      [] value.t = "number" -> IntStr(value.n)
      [] value.t = "boolean" -> (IF value.n = 1 THEN "true" ELSE "false")
      [] value.t = "null" -> "null"
      [] value.t = "undefined" -> "null"
      [] value.t = "array" ->
            "[" \o Join([i \in 1..Len(value.e) |->
                           JSONStringify(value.e[i][2])], ",") \o "]"
      [] OTHER ->
            LET props == SelectSeq(value.e, LAMBDA en : en[2].t # "undefined")
            IN  "{" \o Join([i \in 1..Len(props) |->
                               "\"" \o JSONEscape(props[i][1]) \o "\":"
                               \o JSONStringify(props[i][2])], ",") \o "}"

(***************************************************************************)
(* src/output/json.ts                                                      *)
(***************************************************************************)
formatJSON(data_) == JSONStringify(VObj(data_))

formatJSONL(items_) ==
    Join([i \in 1..Len(items_) |-> JSONStringify(VObj(items_[i]))], "\n")

formatJSONList(items_, pagination_) ==
    JSONStringify(VObj(<<
        <<"items", VArr([i \in 1..Len(items_) |-> VObj(items_[i])])>>,
        <<"pagination", VObj(<< <<"page", VNum(pagination_.page)>>,
                                <<"limit", VNum(pagination_.limit)>>,
                                <<"totalCount", VNum(pagination_.totalCount)>>
                             >>)>> >>))

(***************************************************************************)
(* Columns of a table or CSV: the keys of the items in first-seen order.   *)
(***************************************************************************)
RECURSIVE addKeys(_, _)
addKeys(columns, keys) ==
    IF Len(keys) = 0 THEN columns
    ELSE addKeys(IF InSeq(columns, keys[1]) THEN columns
                 ELSE Append(columns, keys[1]), Tail(keys))

gatherColumns_firstItem(items, columns) ==
    IF Len(items) = 0 THEN columns ELSE addKeys(columns, Keys(items[1]))

RECURSIVE gatherColumns(_, _)
gatherColumns(items, columns) ==
    IF Len(items) = 0 THEN columns
    ELSE gatherColumns(Tail(items), addKeys(columns, Keys(items[1])))

(***************************************************************************)
(* src/output/csv.ts                                                       *)
(***************************************************************************)
csvFormatCellValue_bareCount(value) ==
    IF value.t \in {"null", "undefined"} THEN ""
    ELSE IF value.t = "array" THEN IntStr(Len(value.e))
    ELSE IF value.t = "object"
         THEN IF Has(value.e, "id") THEN JSString(Get(value.e, "id"))
              ELSE "{" \o IntStr(Len(value.e)) \o " keys}"
    ELSE IF isISOTimestamp(value) THEN compressTimestamp(value.s)
    ELSE JSString(value)

csvFormatCellValue(value) ==
    IF value.t \in {"null", "undefined"} THEN ""
    ELSE IF value.t = "array" THEN "[" \o IntStr(Len(value.e)) \o "]"
    ELSE IF value.t = "object"
         THEN IF Has(value.e, "id") THEN JSString(Get(value.e, "id"))
              ELSE "{" \o IntStr(Len(value.e)) \o " keys}"
    ELSE IF isISOTimestamp(value) THEN compressTimestamp(value.s)
    ELSE JSString(value)

\* value.replace(/"/g, '""')
doubleQuotes(s) ==
    Join([i \in 1..Len(s) |->
            IF At(s, i) = "\"" THEN "\"\"" ELSE At(s, i)], "")

escapeCell_quotesKept(value, delimiter) ==
    IF Includes(value, delimiter) \/ Includes(value, "\n")
       \/ Includes(value, "\"")
    THEN "\"" \o value \o "\""
    ELSE value

escapeCell(value, delimiter) ==
    IF Includes(value, delimiter) \/ Includes(value, "\n")
       \/ Includes(value, "\"")
    THEN "\"" \o doubleQuotes(value) \o "\""
    ELSE value

formatCSVWith(items, delimiter) ==
    IF Len(items) = 0 THEN ""
    ELSE LET columns == gatherColumns(items, <<>>)
             header == Join([c \in 1..Len(columns) |->
                               escapeCell(columns[c], delimiter)], delimiter)
             rows == [r \in 1..Len(items) |->
                        Join([c \in 1..Len(columns) |->
                                escapeCell(csvFormatCellValue(
                                    Get(items[r], columns[c])), delimiter)],
                             delimiter)]
         IN  Join(<<header>> \o rows, "\n")

formatCSV(items) == formatCSVWith(items, ",")

formatTSV(items) == formatCSVWith(items, "\t")

(***************************************************************************)
(* src/output/table.ts                                                     *)
(***************************************************************************)
MAX_VALUE_LENGTH == 40

\* the box-drawing character U+2500 of the separator row
RuleChar == "-"

\* chalk.bold(s): the SGR codes 1 and 22 around s when the terminal supports
\* colour (level > 0), s itself otherwise; "\f" stands for the escape
\* character
bold(s, level) ==
    IF level > 0 /\ s # "" THEN "\f[1m" \o s \o "\f[22m" ELSE s

tableFormatCellValue_keepsMax(value) ==
    IF value.t \in {"null", "undefined"} THEN ""
    ELSE IF value.t = "array" THEN "[" \o IntStr(Len(value.e)) \o "]"
    ELSE IF value.t = "object"
         THEN IF Has(value.e, "id") THEN JSString(Get(value.e, "id"))
              ELSE "{" \o IntStr(Len(value.e)) \o " keys}"
    ELSE IF isISOTimestamp(value) THEN compressTimestamp(value.s)
    ELSE LET str == JSString(value)
         IN  IF Len(str) > MAX_VALUE_LENGTH
             THEN Slice(str, MAX_VALUE_LENGTH) \o "..."
             ELSE str

tableFormatCellValue(value) ==
    IF value.t \in {"null", "undefined"} THEN ""
    ELSE IF value.t = "array" THEN "[" \o IntStr(Len(value.e)) \o "]"
    ELSE IF value.t = "object"
         THEN IF Has(value.e, "id") THEN JSString(Get(value.e, "id"))
              ELSE "{" \o IntStr(Len(value.e)) \o " keys}"
    ELSE IF isISOTimestamp(value) THEN compressTimestamp(value.s)
    ELSE LET str == JSString(value)
         IN  IF Len(str) > MAX_VALUE_LENGTH
             THEN Slice(str, MAX_VALUE_LENGTH - 3) \o "..."
             ELSE str

RECURSIVE MaxOf(_, _)
MaxOf(nums, start) ==
    IF Len(nums) = 0 THEN start ELSE MaxOf(Tail(nums), Max(start, nums[1]))

formatTable(items, noColor, level) ==
    IF Len(items) = 0 THEN "No results."
    ELSE LET useColor == ~noColor
             columns == gatherColumns(items, <<>>)
             rows == [r \in 1..Len(items) |->
                        [c \in 1..Len(columns) |->
                           tableFormatCellValue(Get(items[r], columns[c]))]]
             widths == [c \in 1..Len(columns) |->
                          Max(Len(columns[c]),
                              MaxOf([r \in 1..Len(rows) |-> Len(rows[r][c])],
                                    0))]
             header == Join([c \in 1..Len(columns) |->
                               PadEnd(columns[c], widths[c])], "  ")
             separator == Join([c \in 1..Len(columns) |->
                                  Repeat(RuleChar, widths[c])], "  ")
             dataLines == [r \in 1..Len(rows) |->
                             Join([c \in 1..Len(columns) |->
                                     PadEnd(rows[r][c], widths[c])], "  ")]
         IN  Join(<<IF useColor THEN bold(header, level) ELSE header,
                    separator>> \o dataLines, "\n")

formatTableItem(type, data, noColor, level) ==
    IF Len(data) = 0 THEN "No " \o type \o " data."
    ELSE LET useColor == ~noColor
             keyWidth == MaxOf([i \in 1..Len(data) |-> Len(data[i][1])], 0)
             separator == Repeat(RuleChar, keyWidth) \o "  "
                          \o Repeat(RuleChar, MAX_VALUE_LENGTH)
             header == PadEnd("Key", keyWidth) \o "  " \o "Value"
             lines == [i \in 1..Len(data) |->
                         LET paddedKey == PadEnd(data[i][1], keyWidth)
                             val == tableFormatCellValue(data[i][2])
                         IN  (IF useColor THEN bold(paddedKey, level)
                              ELSE paddedKey) \o "  " \o val]
         IN  Join(<<IF useColor THEN bold(header, level) ELSE header,
                    separator>> \o lines, "\n")

(***************************************************************************)
(* src/output/index.ts                                                     *)
(***************************************************************************)
resolveFormat_envFirst(explicit, envVar, isTTY) ==
    IF envVar # "" THEN envVar
    ELSE IF explicit # "" THEN explicit
    ELSE IF isTTY THEN "table" ELSE "compact"

resolveFormat(explicit, envVar, isTTY) ==
    IF explicit # "" THEN explicit
    ELSE IF envVar # "" THEN envVar
    ELSE IF isTTY THEN "table" ELSE "compact"

useFiltered_always(options_) == TRUE

\* options.fields != null
useFiltered(options_) == options_.fields.kind # "undefined"

formatList_defaultIsTable(resourceType, items_, pagination_, options_, level) ==
    LET defaultFields == getDefaultFields(resourceType)
        fieldSelector == IF options_.fields.kind = "undefined"
                         THEN SelList(defaultFields) ELSE options_.fields
        filtered == [i \in 1..Len(items_) |->
                       selectFields(items_[i], fieldSelector)]
    IN  CASE options_.format = "count" ->
               formatCompactCount(pagination_.totalCount)
          [] options_.format = "id" ->
               Join([i \in 1..Len(items_) |->
                       JoinElem(Get(items_[i], "id"))], "\n")
          [] options_.format = "json" ->
               formatJSONList(IF useFiltered(options_) THEN filtered ELSE items_,
                              pagination_)
          [] options_.format = "jsonl" ->
               formatJSONL(IF useFiltered(options_) THEN filtered ELSE items_)
          [] options_.format = "csv" ->
               formatCSV(IF useFiltered(options_) THEN filtered ELSE items_)
          [] options_.format = "tsv" ->
               formatTSV(IF useFiltered(options_) THEN filtered ELSE items_)
          [] options_.format = "compact" ->
               formatCompactList(resourceType, filtered, pagination_,
                                 options_.fields)
          [] OTHER ->
               formatTable(filtered, options_.noColor, level)

formatList(resourceType, items_, pagination_, options_, level) ==
    LET defaultFields == getDefaultFields(resourceType)
        fieldSelector == IF options_.fields.kind = "undefined"
                         THEN SelList(defaultFields) ELSE options_.fields
        filtered == [i \in 1..Len(items_) |->
                       selectFields(items_[i], fieldSelector)]
    IN  CASE options_.format = "count" ->
               formatCompactCount(pagination_.totalCount)
          [] options_.format = "id" ->
               Join([i \in 1..Len(items_) |->
                       JoinElem(Get(items_[i], "id"))], "\n")
          [] options_.format = "json" ->
               formatJSONList(IF useFiltered(options_) THEN filtered ELSE items_,
                              pagination_)
          [] options_.format = "jsonl" ->
               formatJSONL(IF useFiltered(options_) THEN filtered ELSE items_)
          [] options_.format = "csv" ->
               formatCSV(IF useFiltered(options_) THEN filtered ELSE items_)
          [] options_.format = "tsv" ->
               formatTSV(IF useFiltered(options_) THEN filtered ELSE items_)
          [] options_.format = "table" ->
               formatTable(filtered, options_.noColor, level)
          [] OTHER ->
               formatCompactList(resourceType, filtered, pagination_,
                                 options_.fields)

formatItem_fieldsOverDetail(resourceType, data_, options_, level) ==
    LET defaultFields == IF options_.fields.kind # "undefined"
                         THEN options_.fields
                         ELSE IF options_.detail THEN SelAll
                         ELSE SelList(getDefaultFields(resourceType))
        filtered == selectFields(data_, defaultFields)
    IN  CASE options_.format = "id" ->
               (IF Get(data_, "id").t \in {"null", "undefined"} THEN ""
                ELSE JSString(Get(data_, "id")))
          [] options_.format = "json" ->
               formatJSON(IF options_.fields.kind # "undefined"
                             \/ options_.detail
                          THEN filtered ELSE data_)
          [] options_.format = "csv" -> formatCSV(<<filtered>>)
          [] options_.format = "tsv" -> formatTSV(<<filtered>>)
          [] options_.format = "table" ->
               formatTableItem(resourceType, filtered, options_.noColor,
                               level)
          [] OTHER -> formatCompactItem(resourceType, filtered, SelUndefined)

formatItem(resourceType, data_, options_, level) ==
    LET defaultFields == IF options_.detail THEN SelAll
                         ELSE IF options_.fields.kind = "undefined"
                         THEN SelList(getDefaultFields(resourceType))
                         ELSE options_.fields
        filtered == selectFields(data_, defaultFields)
    IN  CASE options_.format = "id" ->
               (IF Get(data_, "id").t \in {"null", "undefined"} THEN ""
                ELSE JSString(Get(data_, "id")))
          [] options_.format = "json" ->
               formatJSON(IF options_.fields.kind # "undefined"
                             \/ options_.detail
                          THEN filtered ELSE data_)
          [] options_.format = "csv" -> formatCSV(<<filtered>>)
          [] options_.format = "tsv" -> formatTSV(<<filtered>>)
          [] options_.format = "table" ->
               formatTableItem(resourceType, filtered, options_.noColor,
                               level)
          [] OTHER -> formatCompactItem(resourceType, filtered, SelUndefined)

formatDeleted(resourceType, id, format) ==
    IF format = "json"
    THEN JSONStringify(VObj(<< <<"deleted", VBool(TRUE)>>,
                               <<"id", VStr(id)>>,
                               <<"type", VStr(resourceType)>> >>))
    ELSE IF format = "id" THEN id
    ELSE "deleted " \o resourceType \o " id=" \o id

(***************************************************************************)
(* The inputs of the checked instance.                                     *)
(***************************************************************************)
Item1 ==
    << <<"id", VStr("prod_1")>>, <<"name", VStr("Pro Plan")>>,
       <<"description", VStr("Best")>>, <<"isRecurring", VBool(TRUE)>>,
       <<"prices", VArr(<<VObj(<< <<"amount", VNum(2000)>> >>)>>)>> >>

Item2 ==
    << <<"name", VNull>>, <<"email", VStr("a@b.co")>>,
       <<"id", VStr("cus_2")>> >>

Item3 == << <<"name", VStr("Solo")>> >>

Item4 == <<>>

Item5 ==
    << <<"id", VNum(7)>>,
       <<"customer", VObj(<< <<"id", VStr("cus_2")>>,
                             <<"email", VStr("a@b.co")>> >>)>>,
       <<"createdAt", VStr("2024-01-15T10:30:00.000Z")>>,
       <<"slug", VStr("")>>, <<"label", VUndef>> >>

ItemPool == {Item1, Item2, Item3, Item4, Item5}

\* the items lists are made of: a full product, an item without keys (and
\* so without id) and an item with a nested object
ListPool == {Item1, Item4, Item5}

ItemLists == UNION {[1..n -> ListPool] : n \in 0..MaxItems}

Paginations ==
    [page : 1..MaxPage, limit : 1..MaxLimit, totalCount : 0..MaxTotal]

ResourceTypes == {"product", "products"}

\* the eight members of OutputFormat and one value outside it
Formats ==
    {"table", "compact", "json", "jsonl", "csv", "tsv", "id", "count", "yaml"}

FieldLists ==
    {SelList(<<"id", "name">>),
     SelList(<<"name", "missing", "id", "name">>),
     SelList(<<"customer", "createdAt", "label">>)}

FieldChoices == FieldLists \cup {SelUndefined}

Opt(f, fl, d, nc) ==
    [format |-> f, fields |-> fl, detail |-> d, quiet |-> FALSE,
     noColor |-> nc]

\* options of formatItem
ItemOptions ==
    {Opt(f, fl, d, nc) :
        f \in Formats, fl \in FieldChoices, d \in BOOLEAN, nc \in BOOLEAN}

\* options of formatList: colour is switched on for the table format only,
\* the one format that reads noColor, and detail for two formats
ListOptions ==
    {Opt(f, fl, FALSE, TRUE) : f \in Formats, fl \in FieldChoices}
    \cup {Opt("table", fl, FALSE, FALSE) : fl \in FieldChoices}
    \cup {Opt(f, fl, TRUE, TRUE) :
             f \in {"compact", "json"}, fl \in FieldChoices}

\* chalk's colour level: 0 when the terminal has no colour support; it is
\* consulted only when colour is on
ChalkLevels(o) == IF o.noColor THEN {0} ELSE {0, 1}

NoPagination == [page |-> 1, limit |-> 1, totalCount |-> 0]

NoOptions ==
    [format |-> "compact", fields |-> SelUndefined, detail |-> FALSE,
     quiet |-> FALSE, noColor |-> FALSE]

(***************************************************************************)
(* JavaScript operators on values.                                         *)
(***************************************************************************)
\* v === null || v === undefined
Nullish(v) == v.t \in {"null", "undefined"}

\* a ?? b
Coalesce(a, b) == IF Nullish(a) THEN b ELSE a

\* Boolean(v)
Truthy(v) ==
    CASE v.t = "string" -> v.s # ""
      [] v.t = "number" -> v.n # 0
      [] v.t = "boolean" -> v.n = 1
      [] v.t \in {"null", "undefined"} -> FALSE
      [] OTHER -> TRUE

\* v?.[key]
Prop(v, key) == Get(v.e, key)

\* an async function of the SDK: called, it returns value (kind "return")
\* or throws it (kind "throw")
VFn(kind, value) ==
    [t |-> "function", s |-> kind, n |-> 0, e |-> << <<"#", value>> >>]

\* an Error instance: name and constructor are read through the prototype
ErrorOf(ctor, message, props) ==
    VObj(<< <<"name", VStr(ctor)>>, <<"message", VStr(message)>>,
            <<"constructor", VObj(<< <<"name", VStr(ctor)>> >>)>> >>
         \o props)

(***************************************************************************)
(* src/utils/errors.ts                                                     *)
(***************************************************************************)
CLIError(type, code, resource, id, fields, message) ==
    [type |-> type, code |-> code, resource |-> resource, id |-> id,
     fields |-> fields, message |-> message]

getHint(error) ==
    CASE error.type = "Unauthorized" ->
           VStr("Run 'polar auth login --token <your-access-token>' to authenticate. Get your token at https://polar.sh/settings")
      [] error.type = "Forbidden" ->
           VStr("Check that your token has the required scopes, or use --org to specify an organization")
      [] error.type = "ResourceNotFound" ->
           (IF Truthy(error.resource)
            THEN VStr("Run 'polar " \o JSString(error.resource)
                      \o "s list' to see available "
                      \o JSString(error.resource) \o "s")
            ELSE VStr("Verify the resource ID is correct"))
      [] error.type = "ValidationError" ->
           (IF Truthy(error.resource)
            THEN VStr("Run 'polar " \o JSString(error.resource)
                      \o "s create --help' for required flags and usage")
            ELSE VStr("Check the flag values and try again"))
      [] error.type = "RateLimited" ->
           VStr("Wait a moment and try again. Use --limit to fetch fewer items per request")
      [] error.type = "ServerError" ->
           VStr("This is a Polar API issue. Check https://status.polar.sh or try again later")
      [] error.type = "ConnectionError" ->
           VStr("Check your network connection and try again")
      [] error.type = "ConfirmationRequired" ->
           VStr("Add '--yes' to confirm destructive actions in non-interactive mode")
      [] error.type = "NotImplemented" ->
           VStr("This operation may not be available in the current API version")
      [] OTHER -> VUndef

\* lines.push(`  Detail: ${error.message}`) when error.message is truthy
detailLine(error) ==
    IF Truthy(error.message)
    THEN <<"  Detail: " \o JSString(error.message)>> ELSE <<>>

formatError(error) ==
    LET lines ==
          CASE error.type = "Unauthorized" ->
                 <<"Error: Not authenticated",
                   "  Run 'polar auth login --token <your-access-token>' to authenticate.",
                   "  Get your token at https://polar.sh/settings">>
                 \o (IF /\ Truthy(error.message)
                        /\ error.message # VStr("No access token found")
                        /\ error.message # VStr("Unauthorized")
                     THEN detailLine(error) ELSE <<>>)
            [] error.type = "Forbidden" ->
                 <<"Error: Access denied"
                   \o (IF Truthy(error.resource)
                       THEN " for " \o JSString(error.resource) ELSE "")
                   \o " (403)">>
                 \o detailLine(error)
                 \o <<"  Hint: Check that your token has the required scopes for this operation.",
                      "  Hint: If accessing an organization resource, use --org <id> to specify the organization.">>
            [] error.type = "ResourceNotFound" ->
                 <<"Error: "
                   \o JSString(Coalesce(error.resource, VStr("Resource")))
                   \o " not found (404)">>
                 \o (IF Truthy(error.id)
                     THEN <<"  ID: " \o JSString(error.id)>> ELSE <<>>)
                 \o (IF Truthy(error.resource)
                     THEN <<"  Hint: Run 'polar " \o JSString(error.resource)
                            \o "s list' to see available "
                            \o JSString(error.resource) \o "s.">>
                     ELSE <<"  Hint: Verify the resource ID is correct.">>)
            [] error.type = "ValidationError" ->
                 <<"Error: Validation failed (422)">>
                 \o (IF Truthy(error.fields)
                     THEN [i \in 1..Len(error.fields.e) |->
                             "  - " \o error.fields.e[i][1] \o ": "
                             \o JSString(error.fields.e[i][2])]
                     ELSE <<>>)
                 \o (IF ~Truthy(error.fields)
                     THEN detailLine(error) ELSE <<>>)
                 \o (IF Truthy(error.resource)
                     THEN <<"  Hint: Run 'polar " \o JSString(error.resource)
                            \o "s create --help' for required flags and usage.">>
                     ELSE <<>>)
            [] error.type = "RateLimited" ->
                 <<"Error: Rate limit exceeded (429)",
                   "  Hint: Wait a moment and try again. Use --limit to fetch fewer items per request.">>
            [] error.type = "ServerError" ->
                 <<"Error: Polar API error ("
                   \o JSString(Coalesce(error.code, VNum(500))) \o ")">>
                 \o detailLine(error)
                 \o <<"  Hint: This is a server-side issue. Check https://status.polar.sh or try again later.">>
            [] error.type = "ConnectionError" ->
                 <<"Error: Could not connect to the Polar API">>
                 \o detailLine(error)
                 \o <<"  Hint: Check your network connection and try again.">>
            [] error.type = "ConfirmationRequired" ->
                 <<"Error: Confirmation required for destructive action",
                   "  Hint: Add '--yes' to confirm, or run in an interactive terminal.">>
            [] OTHER ->
                 <<"Error: "
                   \o JSString(Coalesce(error.message, VStr(error.type)))
                   \o (IF Truthy(error.code)
                       THEN " (" \o JSString(error.code) \o ")" ELSE "")>>
    IN  Join(lines, "\n")

\* value.slice(0, n) for a string or an array
sliceValue(value, n) ==
    IF value.t = "string" THEN VStr(Slice(value.s, n))
    ELSE [value EXCEPT !.e = SubSeq(value.e, 1, Min(n, Len(value.e)))]

formatErrorCompact(error) ==
    LET hint == getHint(error)
        parts ==
          <<"error">>
          \o (IF error.code.t # "undefined"
              THEN <<"code=" \o JSString(error.code)>> ELSE <<>>)
          \o <<"type=" \o error.type>>
          \o (IF Truthy(error.resource)
              THEN <<"resource=" \o JSString(error.resource)>> ELSE <<>>)
          \o (IF Truthy(error.id)
              THEN <<"id=" \o JSString(error.id)>> ELSE <<>>)
          \o (IF Truthy(error.fields)
              THEN <<"fields=\""
                     \o Join([i \in 1..Len(error.fields.e) |->
                                error.fields.e[i][1] \o ": "
                                \o JSString(error.fields.e[i][2])], "; ")
                     \o "\"">>
              ELSE <<>>)
          \o (IF Truthy(error.message)
              THEN <<"message=\""
                     \o JSString(sliceValue(error.message, 200)) \o "\"">>
              ELSE <<>>)
          \o (IF Truthy(hint)
              THEN <<"hint=\"" \o hint.s \o "\"">> ELSE <<>>)
    IN  Join(parts, " ")

\* the loop over err.body.detail that fills fields, from element i
RECURSIVE detailFields(_, _, _)
detailFields(detail, fields, i) ==
    IF i > Len(detail.e) THEN fields
    ELSE LET d == detail.e[i][2]
             locValue == Prop(d, "loc")
             kept == SelectSeq(locValue.e, LAMBDA en : en[2] # VStr("body"))
             loc == IF locValue.t = "array"
                    THEN Join([j \in 1..Len(kept) |-> JoinElem(kept[j][2])],
                              ".")
                    ELSE "unknown"
             msg == Coalesce(Coalesce(Prop(d, "msg"), Prop(d, "message")),
                             VStr(JSString(d)))
         IN  detailFields(detail, Put(fields, loc, msg), i + 1)

\* message.includes('fetch') for a string or an array
includesFetch(message) ==
    IF message.t = "string" THEN Includes(message.s, "fetch")
    ELSE \E i \in 1..Len(message.e) : message.e[i][2] = VStr("fetch")

\* String(err): an Error gives its name when it has no message
errorToString(err) ==
    IF Prop(err, "name").t = "string" THEN Prop(err, "name").s
    ELSE "[object Object]"

classifySDKError(err, resourceName) ==
    LET statusCode ==
            Coalesce(Coalesce(Prop(err, "statusCode"), Prop(err, "status")),
                     Prop(Prop(err, "response"), "status"))
        detail == Prop(Prop(err, "body"), "detail")
        message ==
            Coalesce(Coalesce(Coalesce(detail,
                                       Prop(Prop(err, "body"), "message")),
                              Prop(err, "message")),
                     VStr(errorToString(err)))
        fields == IF Truthy(detail) /\ detail.t = "array"
                  THEN VObj(detailFields(detail, <<>>, 1)) ELSE VUndef
        sliced == sliceValue(message, 200)
    IN  IF \/ Prop(err, "code") \in {VStr("ECONNREFUSED"), VStr("ENOTFOUND"),
                                      VStr("ETIMEDOUT")}
           \/ Prop(Prop(err, "cause"), "code")
                 \in {VStr("ECONNREFUSED"), VStr("ENOTFOUND")}
           \/ (Prop(err, "name") = VStr("TypeError") /\ includesFetch(message))
        THEN CLIError("ConnectionError", VUndef, resourceName, VUndef, VUndef,
                      sliced)
        ELSE CASE statusCode = VNum(401) ->
                    CLIError("Unauthorized", VNum(401), resourceName, VUndef,
                             VUndef, sliced)
               [] statusCode = VNum(403) ->
                    CLIError("Forbidden", VNum(403), resourceName, VUndef,
                             VUndef, sliced)
               [] statusCode = VNum(404) ->
                    CLIError("ResourceNotFound", VNum(404), resourceName,
                             VUndef, VUndef, sliced)
               [] statusCode = VNum(422) ->
                    CLIError("ValidationError", VNum(422), resourceName,
                             VUndef, fields,
                             IF Truthy(fields) THEN VUndef ELSE sliced)
               [] statusCode = VNum(429) ->
                    CLIError("RateLimited", VNum(429), resourceName, VUndef,
                             VUndef, VUndef)
               [] OTHER ->
                    IF Truthy(statusCode) /\ statusCode.n >= 500
                    THEN CLIError("ServerError", statusCode, resourceName,
                                  VUndef, VUndef, sliced)
                    ELSE CLIError(
                           JSString(Coalesce(
                               Prop(Prop(err, "constructor"), "name"),
                               VStr("UnexpectedError"))),
                           statusCode, resourceName, VUndef, VUndef, sliced)

(***************************************************************************)
(* src/resources/types.ts and src/resources/registry.ts                    *)
(***************************************************************************)
ResourceDef(name, plural, sdkNamespace, subNamespace, defaultFields) ==
    [name |-> name, plural |-> plural, sdkNamespace |-> sdkNamespace,
     subNamespace |-> subNamespace, defaultFields |-> defaultFields]

\* idParam "" and args <<>> stand for an absent property
OperationDef(type, sdkMethod, args, confirmRequired) ==
    [type |-> type, sdkMethod |-> sdkMethod, args |-> args, idParam |-> "",
     paginatable |-> TRUE, confirmRequired |-> confirmRequired]

OperationTypes == {"list", "get", "create", "update", "delete", "custom"}

products ==
    ResourceDef("product", "products", "products", "",
                <<"id", "name", "isRecurring", "isArchived", "prices",
                  "benefits">>)

customers ==
    ResourceDef("customer", "customers", "customers", "",
                <<"id", "email", "name", "type", "createdAt">>)

portalOrders ==
    ResourceDef("portalOrder", "portalOrders", "customerPortal",
                "customerPortal.orders",
                <<"id", "status", "product", "totalAmount", "currency",
                  "createdAt">>)

listOp == OperationDef("list", "list", <<>>, FALSE)
getOp == OperationDef("get", "get", <<>>, FALSE)
createOp == OperationDef("create", "create", <<>>, FALSE)
updateOp == OperationDef("update", "update", <<>>, FALSE)
deleteOp == OperationDef("delete", "delete", <<>>, TRUE)
updateBenefitsOp == OperationDef("custom", "updateBenefits", <<"id">>, FALSE)

\* the operations registered as commands, as <<resource, operation>>
RESOURCES ==
    {<<products, listOp>>, <<products, getOp>>, <<products, createOp>>,
     <<products, updateOp>>, <<products, updateBenefitsOp>>,
     <<customers, listOp>>, <<customers, deleteOp>>,
     <<portalOrders, listOp>>}

(***************************************************************************)
(* src/resources/handler.ts                                                *)
(***************************************************************************)
\* the loop over the parts of subNamespace, from part i; reading a
\* property of undefined throws
RECURSIVE walkNamespace(_, _, _)
walkNamespace(ns, parts, i) ==
    IF i > Len(parts) THEN [threw |-> FALSE, value |-> ns]
    ELSE IF Nullish(ns) THEN [threw |-> TRUE, value |-> VUndef]
    ELSE walkNamespace(Prop(ns, parts[i]), parts, i + 1)

getSDKNamespace(client, resource) ==
    IF resource.subNamespace # ""
    THEN walkNamespace(client, Split(resource.subNamespace, "."), 1)
    ELSE [threw |-> FALSE, value |-> Prop(client, resource.sdkNamespace)]

\* no operation flag and no organization is given: the request holds the
\* pagination only
buildListRequest(operation, options_) ==
    IF operation.paginatable
    THEN << <<"limit", Coalesce(options_.limit, VNum(10))>>,
            <<"page", Coalesce(options_.page, VNum(1))>> >>
    ELSE <<>>

idParamOf(operation) ==
    IF operation.idParam # "" THEN operation.idParam ELSE "id"

buildGetRequest(operation, options_) ==
    << <<idParamOf(operation), Get(options_.args, "id")>> >>

buildMutationRequest(operation, options_) ==
    IF operation.type = "update" /\ Truthy(Get(options_.args, "id"))
    THEN << <<idParamOf(operation), Get(options_.args, "id")>> >>
    ELSE <<>>

\* what executeOperation leaves: the CommandResult it resolves to (or the
\* value it rejects with), the SDK calls it made and the values it handed
\* to the formatter
NoResult ==
    [called |-> FALSE, rejected |-> FALSE, thrown |-> VUndef,
     stdout |-> "", stderr |-> "", exitCode |-> 0, calls |-> <<>>,
     type |-> "", items |-> <<>>, data |-> <<>>,
     pagination |-> NoPagination, options |-> NoOptions]

\* isTTY ? formatError(cliError) : formatErrorCompact(cliError)
renderError(cliError, isTTY) ==
    IF isTTY THEN formatError(cliError) ELSE formatErrorCompact(cliError)

\* a TypeError raised by the JavaScript engine (the text is V8's)
TypeErrorOf(message) == ErrorOf("TypeError", message, <<>>)

\* formatItem throws: "field in data" and "data.id" on a value that is no
\* object
formatItemThrows(value, options_) ==
    /\ value.t \notin {"object", "array"}
    /\ \/ /\ ~options_.detail
          /\ \/ options_.fields.kind \in {"undefined", "minimal"}
             \/ (options_.fields.kind = "list"
                 /\ Len(options_.fields.names) > 0)
       \/ (options_.format = "id" /\ Nullish(value))

\* the list rendering shared by the cases list and custom
listResult(resource, response, options_, level, calls) ==
    LET result == Coalesce(Prop(response, "result"), response)
        itemsValue == Coalesce(Prop(result, "items"), VArr(<<>>))
        its == [i \in 1..Len(itemsValue.e) |-> itemsValue.e[i][2].e]
        pg == [page |-> Coalesce(options_.page, VNum(1)).n,
               limit |-> Coalesce(options_.limit, VNum(10)).n,
               totalCount |->
                   Coalesce(Prop(Prop(result, "pagination"), "totalCount"),
                            VNum(Len(its))).n]
    IN  [NoResult EXCEPT
            !.called = TRUE, !.calls = calls, !.options = options_.output,
            !.type = resource.plural, !.items = its, !.pagination = pg,
            !.stdout = formatList(resource.plural, its, pg, options_.output,
                                  level)]

caught_onStdout(err, resource, options_, isTTY, calls) ==
    [NoResult EXCEPT
        !.called = TRUE, !.calls = calls, !.options = options_.output,
        !.stdout = renderError(classifySDKError(err, VStr(resource.name)),
                               isTTY),
        !.exitCode = 1]

\* the catch block
caught(err, resource, options_, isTTY, calls) ==
    [NoResult EXCEPT
        !.called = TRUE, !.calls = calls, !.options = options_.output,
        !.stderr = renderError(classifySDKError(err, VStr(resource.name)),
                               isTTY),
        !.exitCode = 1]

\* the single-item rendering shared by get, create, update and custom
itemResult(resource, value, options_, isTTY, level, calls) ==
    IF formatItemThrows(value, options_.output)
    THEN caught(TypeErrorOf("Cannot use 'in' operator to search for 'id' in "
                            \o JSString(value)),
                resource, options_, isTTY, calls)
    ELSE [NoResult EXCEPT
            !.called = TRUE, !.calls = calls, !.options = options_.output,
            !.type = resource.name, !.data = value.e,
            !.stdout = formatItem(resource.name, value.e, options_.output,
                                  level)]

executeOperation(client, resource, operation, options_, isTTY, level) ==
    LET found == getSDKNamespace(client, resource)
        namespace == found.value
        method == Prop(namespace, operation.sdkMethod)
        id == Coalesce(Get(options_.args, "id"), VStr(""))
        req == CASE operation.type = "list" ->
                      buildListRequest(operation, options_)
                 [] operation.type = "get" ->
                      buildGetRequest(operation, options_)
                 [] operation.type \in {"create", "update"} ->
                      buildMutationRequest(operation, options_)
                 [] operation.type = "delete" ->
                      << <<idParamOf(operation), id>> >>
                 [] OTHER -> options_.args
        calls == << [resource |-> resource.name,
                     method |-> operation.sdkMethod, req |-> req] >>
        returned == method.e[1][2]
    IN  IF found.threw \/ Nullish(namespace)
        THEN [NoResult EXCEPT
                !.called = TRUE, !.rejected = TRUE,
                !.options = options_.output,
                !.thrown = TypeErrorOf(
                    "Cannot read properties of undefined (reading '"
                    \o operation.sdkMethod \o "')")]
        ELSE IF ~Truthy(method)
        THEN [NoResult EXCEPT
                !.called = TRUE, !.options = options_.output,
                !.stderr = renderError(
                    CLIError("NotImplemented", VUndef, VStr(resource.name),
                             VUndef, VUndef,
                             VStr("Method '" \o operation.sdkMethod
                                  \o "' is not available on '"
                                  \o resource.sdkNamespace \o "'")),
                    isTTY),
                !.exitCode = 1]
        ELSE IF operation.type \notin OperationTypes
        THEN [NoResult EXCEPT
                !.called = TRUE, !.options = options_.output,
                !.stderr = "Unknown operation type: " \o operation.type,
                !.exitCode = 1]
        ELSE IF method.s = "throw"
        THEN caught(returned, resource, options_, isTTY, calls)
        ELSE CASE operation.type = "list" ->
                    (IF Nullish(returned)
                     THEN caught(TypeErrorOf(
                                   "Cannot read properties of undefined (reading 'result')"),
                                 resource, options_, isTTY, calls)
                     ELSE listResult(resource, returned, options_, level,
                                     calls))
               [] operation.type \in {"get", "create", "update"} ->
                    itemResult(resource, returned, options_, isTTY, level,
                               calls)
               [] operation.type = "delete" ->
                    [NoResult EXCEPT
                        !.called = TRUE, !.calls = calls,
                        !.options = options_.output,
                        !.type = resource.name,
                        !.stdout = formatDeleted(resource.name, JSString(id),
                                                 options_.output.format)]
               [] OTHER ->
                    IF Truthy(returned) /\ returned.t \in {"object", "array"}
                       /\ Has(returned.e, "items")
                    THEN listResult(resource, returned, options_, level,
                                    calls)
                    ELSE IF Nullish(returned)
                    THEN [NoResult EXCEPT
                            !.called = TRUE, !.calls = calls,
                            !.options = options_.output,
                            !.stdout = operation.sdkMethod \o " completed"]
                    ELSE itemResult(resource, returned, options_, isTTY,
                                    level, calls)

(***************************************************************************)
(* src/cli.ts (getClientFactory) and src/commands/register.ts              *)
(* (the action of a registered operation)                                  *)
(***************************************************************************)
\* globalOpts.fields?.split(',').map(f => f.trim())
parseFields(fields) ==
    IF Nullish(fields) THEN SelUndefined
    ELSE LET parts == Split(fields.s, ",")
         IN  SelList([i \in 1..Len(parts) |-> Trim(parts[i])])

getToken_anonymous(env) ==
    Coalesce(Coalesce(env.POLAR_ACCESS_TOKEN, env.storedToken),
             VStr("anonymous"))

\* process.env.POLAR_ACCESS_TOKEN ?? (await auth.getToken())
getToken(env) == Coalesce(env.POLAR_ACCESS_TOKEN, env.storedToken)

\* the process when the action ends: what it wrote, its exit code and
\* what executeOperation left (NoResult when it was not called)
Exited(stdout_, stderr_, exitCode_, result_) ==
    [stdout |-> stdout_, stderr |-> stderr_, exitCode |-> exitCode_,
     result |-> result_]

\* the positional arguments by name
actionArgsOf(operation, actionArgs) ==
    IF operation.type \in {"get", "update", "delete"}
    THEN << <<"id", actionArgs[1]>> >>
    ELSE IF operation.type = "custom"
    THEN [i \in 1..Len(operation.args) |->
            <<operation.args[i], actionArgs[i]>>]
    ELSE <<>>

action_neverAsks(inv, level) ==
    LET client == inv.client
        resource == inv.resource
        operation == inv.operation
        isTTY == inv.isTTY
        env == inv.env
        globalOpts == inv.globalOpts
        allOpts == inv.allOpts
        actionArgs == inv.actionArgs
    IN
    IF ~Truthy(getToken(env))
    THEN Exited("",
                renderError(CLIError("Unauthorized", VNum(401), VUndef,
                                     VUndef, VUndef,
                                     VStr("No access token found")), isTTY)
                \o "\n",
                1, NoResult)
    ELSE
    LET format == resolveFormat(globalOpts.output, env.POLAR_OUTPUT, isTTY)
        limit == Coalesce(Coalesce(allOpts.first, allOpts.limit),
                          VNum(IF isTTY THEN 25 ELSE 10))
        page == IF Truthy(allOpts.first) THEN VNum(1)
                ELSE Coalesce(allOpts.page, VNum(1))
        execOptions ==
            [args |-> actionArgsOf(operation, actionArgs),
             flags |-> <<>>,
             output |-> [format |-> format,
                         fields |-> parseFields(globalOpts.fields),
                         detail |-> globalOpts.detail,
                         quiet |-> globalOpts.quiet,
                         noColor |-> ~isTTY],
             limit |-> limit, page |-> page]
    IN  IF FALSE
        THEN Exited("",
                    formatErrorCompact(
                        CLIError("ConfirmationRequired", VUndef, VUndef,
                                 VUndef, VUndef, VUndef)) \o "\n",
                    1, NoResult)
        ELSE LET result == executeOperation(client, resource, operation,
                                            execOptions, isTTY, level)
                 cliError == classifySDKError(result.thrown,
                                              VStr(resource.name))
             IN  IF result.rejected
                 THEN Exited("", renderError(cliError, isTTY) \o "\n",
                             IF cliError.code = VNum(2) THEN 2 ELSE 1,
                             result)
                 ELSE Exited(
                        IF result.stdout # ""
                        THEN result.stdout \o "\n" ELSE "",
                        IF result.stderr # ""
                        THEN result.stderr \o "\n" ELSE "",
                        result.exitCode, result)

\* inv holds what the process starts with: the command line (globalOpts,
\* allOpts, actionArgs), the environment and the client createClient
\* returns.  Commander stores --no-color as "color", so globalOpts.noColor
\* is undefined and noColor is !isTTY.
action(inv, level) ==
    LET client == inv.client
        resource == inv.resource
        operation == inv.operation
        isTTY == inv.isTTY
        env == inv.env
        globalOpts == inv.globalOpts
        allOpts == inv.allOpts
        actionArgs == inv.actionArgs
    IN
    IF ~Truthy(getToken(env))
    THEN Exited("",
                renderError(CLIError("Unauthorized", VNum(401), VUndef,
                                     VUndef, VUndef,
                                     VStr("No access token found")), isTTY)
                \o "\n",
                1, NoResult)
    ELSE
    LET format == resolveFormat(globalOpts.output, env.POLAR_OUTPUT, isTTY)
        limit == Coalesce(Coalesce(allOpts.first, allOpts.limit),
                          VNum(IF isTTY THEN 25 ELSE 10))
        page == IF Truthy(allOpts.first) THEN VNum(1)
                ELSE Coalesce(allOpts.page, VNum(1))
        execOptions ==
            [args |-> actionArgsOf(operation, actionArgs),
             flags |-> <<>>,
             output |-> [format |-> format,
                         fields |-> parseFields(globalOpts.fields),
                         detail |-> globalOpts.detail,
                         quiet |-> globalOpts.quiet,
                         noColor |-> ~isTTY],
             limit |-> limit, page |-> page]
    IN  IF operation.confirmRequired /\ ~globalOpts.yes /\ ~isTTY
        THEN Exited("",
                    formatErrorCompact(
                        CLIError("ConfirmationRequired", VUndef, VUndef,
                                 VUndef, VUndef, VUndef)) \o "\n",
                    1, NoResult)
        ELSE LET result == executeOperation(client, resource, operation,
                                            execOptions, isTTY, level)
                 cliError == classifySDKError(result.thrown,
                                              VStr(resource.name))
             IN  IF result.rejected
                 THEN Exited("", renderError(cliError, isTTY) \o "\n",
                             IF cliError.code = VNum(2) THEN 2 ELSE 1,
                             result)
                 ELSE Exited(
                        IF result.stdout # ""
                        THEN result.stdout \o "\n" ELSE "",
                        IF result.stderr # ""
                        THEN result.stderr \o "\n" ELSE "",
                        result.exitCode, result)

(***************************************************************************)
(* The inputs of the command path: what the SDK answers, the command line  *)
(* and the environment.                                                    *)
(***************************************************************************)
SDKErrors ==
    {ErrorOf("Error", "Not found", << <<"statusCode", VNum(404)>> >>),
     ErrorOf("Error", "Unauthorized", << <<"status", VNum(401)>> >>),
     ErrorOf("SDKValidationError", "Validation",
             << <<"statusCode", VNum(422)>>,
                <<"body",
                  VObj(<< <<"detail",
                            VArr(<<VObj(<< <<"loc",
                                             VArr(<<VStr("body"),
                                                    VStr("name")>>)>>,
                                           <<"msg",
                                             VStr("Field required")>> >>)>>)
                          >> >>)>> >>),
     ErrorOf("Error", "Internal",
             << <<"response", VObj(<< <<"status", VNum(500)>> >>)>> >>),
     ErrorOf("TypeError", "fetch failed",
             << <<"cause", VObj(<< <<"code", VStr("ECONNREFUSED")>> >>)>> >>),
     ErrorOf("Error", "boom", <<>>)}

itemValues(its) == VArr([i \in 1..Len(its) |-> VObj(its[i])])

\* the page the SDK returns: { result: { items, pagination } }
pageOf(its, totalCount) ==
    VObj(<< <<"result",
              VObj(<< <<"items", itemValues(its)>>,
                      <<"pagination",
                        VObj(<< <<"totalCount", VNum(totalCount)>> >>)>>
                   >>)>> >>)

\* a response that is the list itself, without pagination
bareListOf(its) == VObj(<< <<"items", itemValues(its)>> >>)

Pages == {pageOf(its, n) : its \in ItemLists, n \in 0..MaxTotal}

Returns(operation) ==
    CASE operation.type = "list" ->
            Pages \cup {bareListOf(its) : its \in ItemLists} \cup {VUndef}
      [] operation.type = "delete" -> {VUndef}
      [] operation.type = "custom" ->
            {VUndef, VObj(Item1), bareListOf(<<Item1>>)}
      [] OTHER -> {VObj(Item1), VObj(Item2), VObj(Item4), VUndef}

Methods(operation) ==
    {VFn("return", v) : v \in Returns(operation)}
    \cup {VFn("throw", e) : e \in SDKErrors}

\* the client object that holds value at the path parts[i..]
RECURSIVE nested(_, _, _)
nested(parts, i, value) ==
    IF i > Len(parts) THEN value
    ELSE VObj(<< <<parts[i], nested(parts, i + 1, value)>> >>)

clientOf(resource, namespace) ==
    IF resource.subNamespace # ""
    THEN nested(Split(resource.subNamespace, "."), 1, namespace)
    ELSE VObj(<< <<resource.sdkNamespace, namespace>> >>)

clientWith(resource, operation, method) ==
    clientOf(resource, VObj(<< <<operation.sdkMethod, method>> >>))

\* every client: each answer of the method, the method missing, the
\* namespace missing
Clients(resource, operation) ==
    {clientWith(resource, operation, m) : m \in Methods(operation)}
    \cup {clientOf(resource, VObj(<<>>)), VObj(<<>>)}

\* one client that answers
aClient(resource, operation) ==
    clientWith(resource, operation,
               VFn("return",
                   CASE operation.type = "list" ->
                          pageOf(<<Item1, Item5>>, MaxTotal)
                     [] operation.type = "delete" -> VUndef
                     [] OTHER -> VObj(Item1)))

LoggedIn ==
    [POLAR_ACCESS_TOKEN |-> VUndef, storedToken |-> VStr("polar_tok"),
     POLAR_OUTPUT |-> ""]

\* the token from the environment, from the credentials file, from neither,
\* and an empty POLAR_ACCESS_TOKEN beside a stored token
Envs ==
    {LoggedIn,
     [LoggedIn EXCEPT !.POLAR_ACCESS_TOKEN = VStr("polar_env"),
                      !.storedToken = VNull],
     [LoggedIn EXCEPT !.storedToken = VNull],
     [LoggedIn EXCEPT !.POLAR_ACCESS_TOKEN = VStr("")]}

NoGlobalOpts ==
    [output |-> "", fields |-> VUndef, detail |-> FALSE, quiet |-> FALSE,
     yes |-> FALSE]

\* the values of --fields
FieldArgs ==
    {VUndef, VStr("all"), VStr("minimal"), VStr("id, name"),
     VStr("name,description")}

GlobalOpts ==
    [output : {""} \cup Formats, fields : FieldArgs, detail : BOOLEAN,
     quiet : {FALSE}, yes : {FALSE}]

AllOpts ==
    [first : {VUndef, VNum(1)},
     limit : {VUndef} \cup {VNum(n) : n \in 1..MaxLimit},
     page : {VUndef} \cup {VNum(n) : n \in 1..MaxPage}]

NoExecuteOptions ==
    [args |-> <<>>, flags |-> <<>>, output |-> NoOptions, limit |-> VUndef,
     page |-> VUndef]

Invocation(client, resource, operation, isTTY) ==
    [client |-> client, resource |-> resource, operation |-> operation,
     isTTY |-> isTTY, env |-> LoggedIn, globalOpts |-> NoGlobalOpts,
     allOpts |-> [first |-> VUndef, limit |-> VUndef, page |-> VUndef],
     actionArgs |-> <<VStr("prod_1")>>,
     options |-> [NoExecuteOptions EXCEPT
                     !.args = << <<"id", VStr("prod_1")>> >>]]

NoCommand == Invocation(VObj(<<>>), products, listOp, FALSE)

\* the command lines of the checked instance: every answer of the SDK under
\* the default options; every output option, every pagination option and
\* every credential under one answer
Commands ==
    UNION {{Invocation(c, ro[1], ro[2], tty) :
               c \in Clients(ro[1], ro[2]), tty \in BOOLEAN} :
           ro \in RESOURCES}
    \cup {[Invocation(aClient(products, o), products, o, tty) EXCEPT
              !.globalOpts = g, !.env.POLAR_OUTPUT = e] :
            o \in {listOp, getOp}, g \in GlobalOpts, e \in {"", "json"},
            tty \in BOOLEAN}
    \cup {[Invocation(clientWith(products, listOp, VFn("return", p)),
                      products, listOp, FALSE) EXCEPT !.allOpts = a] :
            p \in Pages, a \in AllOpts}
    \cup {[Invocation(aClient(ro[1], ro[2]), ro[1], ro[2], tty) EXCEPT
              !.env = e, !.globalOpts.yes = y, !.globalOpts.quiet = q] :
            ro \in RESOURCES, e \in Envs, y \in BOOLEAN, q \in BOOLEAN,
            tty \in BOOLEAN}

\* an operation type outside OperationType, as a hand-written OperationDef
archiveOp == OperationDef("archive", "archive", <<>>, FALSE)

\* the direct calls of executeOperation of the checked instance
Executions ==
    UNION {{Invocation(c, ro[1], ro[2], tty) :
               c \in Clients(ro[1], ro[2]), tty \in BOOLEAN} :
           ro \in RESOURCES \cup {<<products, archiveOp>>}}
    \cup {[Invocation(clientWith(products, listOp, VFn("return", p)),
                      products, listOp, FALSE) EXCEPT
              !.options.limit = l, !.options.page = g] :
            p \in Pages,
            l \in {VUndef} \cup {VNum(n) : n \in 1..MaxLimit},
            g \in {VUndef} \cup {VNum(n) : n \in 1..MaxPage}}
    \cup {[Invocation(aClient(products, listOp), products, listOp, FALSE)
              EXCEPT !.options.output = o] : o \in ListOptions}
    \cup {[Invocation(aClient(products, getOp), products, getOp, FALSE)
              EXCEPT !.options.output = o] : o \in ItemOptions}

(***************************************************************************)
(* The inputs of the value normalisers and of the CSV writer.              *)
(***************************************************************************)
\* what formatValue is given: strings, numbers and booleans; among the
\* strings, some one below, at and one above each maximum length
ScalarValues ==
    {VStr(""), VStr("active"), VStr("Pro Plan"), VStr("a,b"),
     VStr("say \"hi\""), VStr("2024-01-15T10:30:00.000Z"),
     VNum(0), VNum(2000), VNum(-5), VBool(TRUE), VBool(FALSE)}
    \cup {VStr(pre \o Repeat("x", n - Len(pre))) :
             pre \in {"", "a b"},
             n \in {MAX_VALUE_LENGTH - 1, MAX_VALUE_LENGTH,
                    MAX_VALUE_LENGTH + 1, MAX_STRING_LENGTH - 1,
                    MAX_STRING_LENGTH, MAX_STRING_LENGTH + 1,
                    MAX_STRING_LENGTH + MAX_VALUE_LENGTH}}

ArrayValues == {VArr([i \in 1..n |-> VNum(i)]) : n \in 0..MaxItems + 1}

\* what a cell of a table or of a CSV file is given
CellValues ==
    ScalarValues \cup ArrayValues
    \cup {VNull, VUndef, VObj(<< <<"id", VStr("cus_2")>> >>),
          VObj(<< <<"email", VStr("a@b.co")>>, <<"tags", VArr(<<>>)>> >>)}

\* lists of rows whose keys and cells hold the delimiters, quotes and line
\* breaks; one row has no keys, one holds null, each lacks keys of others
RowLists ==
    UNION {[1..n ->
              {<< <<"id", VStr("a")>>, <<"name", VStr("Plan, Pro")>> >>,
               << <<"id", VStr("b")>>, <<"note", VStr("say \"hi\"")>>,
                  <<"name", VNull>> >>,
               << <<"k,1", VStr("x\ty")>>, <<"id", VStr("l1\nl2")>> >>,
               <<>>,
               << <<"tags", VArr(<<>>)>>, <<"q\"k", VBool(TRUE)>>,
                  <<"t\tk", VNum(5)>> >>}] : n \in 0..MaxItems}

(***************************************************************************)
(* The configuration and the credentials kept in ~/.polar.  A file is      *)
(* modelled by the value JSON.parse reads back from it.                    *)
(***************************************************************************)
DEFAULT_CONFIG ==
    << <<"server", VStr("production")>>, <<"output", VStr("table")>>,
       <<"defaultLimit", VNum(25)>>, <<"noColor", VBool(FALSE)>> >>

VALID_KEYS == {"organizationId", "server", "output", "defaultLimit", "noColor"}

VALID_SERVERS == {VStr("production"), VStr("sandbox")}

\* what JSON.parse gives for `${JSON.stringify(obj, null, 2)}\n`: a property
\* whose value is undefined is not written
storedJSON(obj) == VObj(SelectSeq(obj, LAMBDA en : en[2].t # "undefined"))

\* { ...DEFAULT_CONFIG, ...parsed } when config.json exists
loadSync(values_, file) ==
    IF file.t # "object" THEN values_
    ELSE LET parsed == file.e
             spread[i \in 0..Len(parsed)] ==
                 IF i = 0 THEN DEFAULT_CONFIG
                 ELSE Put(spread[i - 1], parsed[i][1], parsed[i][2])
         IN  spread[Len(parsed)]

save(values_) == storedJSON(values_)

\* Config.set without the test of the server value
set_anyServer(values_, file, key, value) ==
    IF key \notin VALID_KEYS
    THEN [thrown |-> "Invalid config key: " \o key,
          values |-> values_, file |-> file]
    ELSE IF FALSE
    THEN [thrown |-> "Invalid server value: " \o JSString(value)
                     \o ". Must be 'production' or 'sandbox'.",
          values |-> values_, file |-> file]
    ELSE [thrown |-> "",
          values |-> Put(values_, key, value),
          file |-> save(Put(values_, key, value))]

\* Config.set: what it throws, and the values and the file it leaves
set(values_, file, key, value) ==
    IF key \notin VALID_KEYS
    THEN [thrown |-> "Invalid config key: " \o key,
          values |-> values_, file |-> file]
    ELSE IF key = "server" /\ value \notin VALID_SERVERS
    THEN [thrown |-> "Invalid server value: " \o JSString(value)
                     \o ". Must be 'production' or 'sandbox'.",
          values |-> values_, file |-> file]
    ELSE [thrown |-> "",
          values |-> Put(values_, key, value),
          file |-> save(Put(values_, key, value))]

\* Auth.getToken with the stored token read before the override
authGetToken_storedFirst(file, envOverride) ==
    IF file.t = "object" /\ ~Nullish(Get(file.e, "accessToken"))
    THEN Get(file.e, "accessToken")
    ELSE IF Truthy(envOverride) THEN envOverride
    ELSE VNull

\* Auth.getToken(envOverride) of an Auth whose credentials.json is file
authGetToken(file, envOverride) ==
    IF Truthy(envOverride) THEN envOverride
    ELSE IF file.t = "object"
    THEN Coalesce(Get(file.e, "accessToken"), VNull)
    ELSE VNull

(***************************************************************************)
(* The program as a state machine: a caller invokes one exported function  *)
(* with its arguments and gets the returned value, or a process runs one   *)
(* command and exits; nothing is kept between calls.  command is the       *)
(* invocation in progress, result what executeOperation left, stdout and   *)
(* stderr what the process wrote, exitCode its exit code (-1 while none);  *)
(* value is the one value a normaliser or the login command is given.      *)
(* What outlives a call is the directory ~/.polar and a Config object:     *)
(* configFile and credentials are the parsed contents of config.json and   *)
(* credentials.json (undefined while the file does not exist), values the  *)
(* private field of the Config object (empty before it is constructed).    *)
(* A method of Config or Auth is called with args, and either gives        *)
(* returned or throws an Error whose message is thrown ("" when none).     *)
(***************************************************************************)
VARIABLES op, resourceType, items, data, value, pagination, options,
          selector, chalkLevel, out, projected, command, result, stdout,
          stderr, exitCode, args, returned, thrown, values, configFile,
          credentials

vars == <<op, resourceType, items, data, value, pagination, options,
          selector, chalkLevel, out, projected, command, result, stdout,
          stderr, exitCode, args, returned, thrown, values, configFile,
          credentials>>

Init ==
    /\ op = "idle"
    /\ resourceType = ""
    /\ items = <<>>
    /\ data = <<>>
    /\ value = VUndef
    /\ pagination = NoPagination
    /\ options = NoOptions
    /\ selector = SelUndefined
    /\ chalkLevel = 0
    /\ out = ""
    /\ projected = <<>>
    /\ command = NoCommand
    /\ result = NoResult
    /\ stdout = ""
    /\ stderr = ""
    /\ exitCode = -1
    /\ args = <<>>
    /\ returned = VUndef
    /\ thrown = ""
    /\ values = <<>>
    /\ configFile = VUndef
    /\ credentials = VUndef

CallSelectFields ==
    /\ op = "idle"
    /\ \E d \in ItemPool, f \in FieldLists \cup {SelAll, SelMinimal} :
          /\ data' = d
          /\ selector' = f
          /\ projected' = selectFields(d, f)
    /\ op' = "selectFields"
    /\ UNCHANGED <<resourceType, items, value, pagination, options,
                   chalkLevel, out, command, result, stdout, stderr,
                   exitCode,
                   args, returned, thrown, values, configFile,
                   credentials>>

CallFormatCompactList ==
    /\ op = "idle"
    /\ \E ty \in ResourceTypes, its \in ItemLists, pg \in Paginations,
          f \in FieldChoices :
          /\ resourceType' = ty
          /\ items' = its
          /\ pagination' = pg
          /\ selector' = f
          /\ out' = formatCompactList(ty, its, pg, f)
    /\ op' = "formatCompactList"
    /\ UNCHANGED <<data, value, options, chalkLevel, projected, command,
                   result, stdout, stderr, exitCode,
                   args, returned, thrown, values, configFile,
                   credentials>>

\* formatList hands the pagination on unchanged: the limits below MaxLimit
\* are left to the calls of formatCompactList
CallFormatList ==
    /\ op = "idle"
    /\ \E ty \in ResourceTypes, its \in ItemLists,
          pg \in {p \in Paginations : p.limit = MaxLimit},
          o \in ListOptions :
       \E lvl \in ChalkLevels(o) :
          /\ resourceType' = ty
          /\ items' = its
          /\ pagination' = pg
          /\ options' = o
          /\ chalkLevel' = lvl
          /\ out' = formatList(ty, its, pg, o, lvl)
    /\ op' = "formatList"
    /\ UNCHANGED <<data, value, selector, projected, command, result,
                   stdout, stderr, exitCode,
                   args, returned, thrown, values, configFile,
                   credentials>>

CallFormatItem_projectsInPlace ==
    /\ op = "idle"
    /\ \E ty \in ResourceTypes, d \in ItemPool, o \in ItemOptions :
       \E lvl \in ChalkLevels(o) :
          /\ resourceType' = ty
          /\ data' = selectFields(d, SelMinimal)
          /\ options' = o
          /\ chalkLevel' = lvl
          /\ out' = formatItem(ty, d, o, lvl)
    /\ op' = "formatItem"
    /\ UNCHANGED <<items, value, pagination, selector, projected, command,
                   result, stdout, stderr, exitCode,
                   args, returned, thrown, values, configFile,
                   credentials>>

CallFormatItem ==
    /\ op = "idle"
    /\ \E ty \in ResourceTypes, d \in ItemPool, o \in ItemOptions :
       \E lvl \in ChalkLevels(o) :
          /\ resourceType' = ty
          /\ data' = d
          /\ options' = o
          /\ chalkLevel' = lvl
          /\ out' = formatItem(ty, d, o, lvl)
    /\ op' = "formatItem"
    /\ UNCHANGED <<items, value, pagination, selector, projected, command,
                   result, stdout, stderr, exitCode,
                   args, returned, thrown, values, configFile,
                   credentials>>

\* a caller awaits executeOperation
CallExecuteOperation ==
    /\ op = "idle"
    /\ \E inv \in Executions :
       \E lvl \in ChalkLevels(inv.options.output) :
          /\ command' = inv
          /\ chalkLevel' = lvl
          /\ result' = executeOperation(inv.client, inv.resource,
                                        inv.operation, inv.options,
                                        inv.isTTY, lvl)
    /\ op' = "executeOperation"
    /\ UNCHANGED <<resourceType, items, data, value, pagination, options,
                   selector, out, projected, stdout, stderr, exitCode,
                   args, returned, thrown, values, configFile,
                   credentials>>

\* the process runs the action of a registered operation and exits
RunCommand ==
    /\ op = "idle"
    /\ \E inv \in Commands :
       \E lvl \in (IF inv.isTTY THEN {0, 1} ELSE {0}) :
       \E ended \in {action(inv, lvl)} :
              /\ command' = inv
              /\ chalkLevel' = lvl
              /\ result' = ended.result
              /\ stdout' = ended.stdout
              /\ stderr' = ended.stderr
              /\ exitCode' = ended.exitCode
    /\ op' = "command"
    /\ UNCHANGED <<resourceType, items, data, value, pagination, options,
                   selector, out, projected,
                   args, returned, thrown, values, configFile,
                   credentials>>

\* the process runs `polar auth login`: value is opts.token, undefined when
\* --token is not given; Auth.login stores the token in the credentials
\* file, which the environment of the command stands for
RunAuthLogin ==
    /\ op = "idle"
    /\ \E token \in {VUndef, VStr(""), VStr("polar_new")}, e \in Envs,
          tty \in BOOLEAN :
          /\ value' = token
          /\ IF ~Truthy(token)
             THEN /\ command' = [NoCommand EXCEPT !.isTTY = tty, !.env = e]
                  /\ stdout' = ""
                  /\ stderr' = "Error: Missing required --token flag.\n"
                       \o "  Usage: polar auth login --token <your-access-token>\n"
                       \o "  Get your token at https://polar.sh/settings\n"
                  /\ exitCode' = 2
             ELSE /\ command' = [NoCommand EXCEPT
                                    !.isTTY = tty,
                                    !.env = [e EXCEPT !.storedToken = token]]
                  /\ stdout' = "Authenticated successfully.\n"
                  /\ stderr' = ""
                  /\ exitCode' = 0
    /\ op' = "authLogin"
    /\ UNCHANGED <<resourceType, items, data, pagination, options, selector,
                   chalkLevel, out, projected, result,
                   args, returned, thrown, values, configFile,
                   credentials>>

\* a caller normalises one value or writes one CSV file
CallFormatValue ==
    /\ op = "idle"
    /\ \E v \in ScalarValues :
          /\ value' = v
          /\ out' = formatValue(v)
    /\ op' = "formatValue"
    /\ UNCHANGED <<resourceType, items, data, pagination, options, selector,
                   chalkLevel, projected, command, result, stdout, stderr,
                   exitCode,
                   args, returned, thrown, values, configFile,
                   credentials>>

CallTableFormatCellValue ==
    /\ op = "idle"
    /\ \E v \in CellValues :
          /\ value' = v
          /\ out' = tableFormatCellValue(v)
    /\ op' = "tableFormatCellValue"
    /\ UNCHANGED <<resourceType, items, data, pagination, options, selector,
                   chalkLevel, projected, command, result, stdout, stderr,
                   exitCode,
                   args, returned, thrown, values, configFile,
                   credentials>>

CallCsvFormatCellValue ==
    /\ op = "idle"
    /\ \E v \in CellValues :
          /\ value' = v
          /\ out' = csvFormatCellValue(v)
    /\ op' = "csvFormatCellValue"
    /\ UNCHANGED <<resourceType, items, data, pagination, options, selector,
                   chalkLevel, projected, command, result, stdout, stderr,
                   exitCode,
                   args, returned, thrown, values, configFile,
                   credentials>>

\* the item has an array at the top level or inside a nested object
CallFormatCompactItem ==
    /\ op = "idle"
    /\ \E ty \in ResourceTypes, a \in ArrayValues, inside \in BOOLEAN :
       \E d \in {IF inside
                 THEN << <<"customer", VObj(<< <<"tags", a>> >>)>> >>
                 ELSE << <<"id", VStr("prod_1")>>, <<"benefits", a>> >>} :
          /\ resourceType' = ty
          /\ data' = d
          /\ out' = formatCompactItem(ty, d, SelUndefined)
    /\ op' = "formatCompactItem"
    /\ UNCHANGED <<value, items, pagination, options, selector, chalkLevel,
                   projected, command, result, stdout, stderr, exitCode,
                   args, returned, thrown, values, configFile,
                   credentials>>

\* flattenObject called on its own: an object with two levels of nesting
\* whose leaves run over every kind of value, in both key orders
CallFlattenObject ==
    /\ op = "idle"
    /\ \E l1, l2, l3 \in
             {VNull, VUndef, VStr(""), VStr("x"), VNum(0), VBool(FALSE),
              VStr("2024-01-15T10:30:00.000Z"), VStr("2024-01-15"),
              VArr(<<>>), VArr(<<VObj(<< <<"id", VStr("b_1")>> >>), VNull>>),
              VObj(<<>>)},
          swapped \in BOOLEAN :
       \E inner \in {<< <<"c", l2>>,
                        <<"d", VObj(<< <<"e", l3>>, <<"g", VNum(7)>> >>)>> >>} :
       \E d \in {IF swapped
                 THEN << <<"b", VObj(inner)>>, <<"a", l1>> >>
                 ELSE << <<"a", l1>>, <<"b", VObj(inner)>>, <<"f", l3>> >>} :
          /\ data' = d
          /\ projected' = flattenObject(d, "")
    /\ op' = "flattenObject"
    /\ UNCHANGED <<value, resourceType, items, pagination, options, selector,
                   chalkLevel, out, command, result, stdout, stderr,
                   exitCode,
                   args, returned, thrown, values, configFile,
                   credentials>>

CallFormatCSV ==
    /\ op = "idle"
    /\ \E its \in RowLists :
          /\ items' = its
          /\ out' = formatCSV(its)
    /\ op' = "formatCSV"
    /\ UNCHANGED <<value, resourceType, data, pagination, options, selector,
                   chalkLevel, projected, command, result, stdout, stderr,
                   exitCode,
                   args, returned, thrown, values, configFile,
                   credentials>>

CallFormatTSV ==
    /\ op = "idle"
    /\ \E its \in RowLists :
          /\ items' = its
          /\ out' = formatTSV(its)
    /\ op' = "formatTSV"
    /\ UNCHANGED <<value, resourceType, data, pagination, options, selector,
                   chalkLevel, projected, command, result, stdout, stderr,
                   exitCode,
                   args, returned, thrown, values, configFile,
                   credentials>>

\* new Config(baseDir): the defaults, then loadSync
NewConfig ==
    /\ op = "idle"
    /\ values' = loadSync(DEFAULT_CONFIG, configFile)
    /\ args' = <<>>
    /\ returned' = VUndef
    /\ thrown' = ""
    /\ op' = "Config"
    /\ UNCHANGED <<resourceType, items, data, value, pagination, options,
                   selector, chalkLevel, out, projected, command, result,
                   stdout, stderr, exitCode, configFile, credentials>>

\* config.set(key, value)
CallSet ==
    /\ op = "idle"
    /\ values # <<>>
    /\ \E a \in {<<"server", VStr("production")>>,
                  <<"server", VStr("sandbox")>>,
                  <<"server", VStr("staging")>>,
                  <<"server", VStr("Sandbox")>>,
                  <<"server", VStr("")>>,
                  <<"server", VUndef>>,
                  <<"output", VStr("json")>>,
                  <<"defaultLimit", VNum(50)>>,
                  <<"noColor", VBool(TRUE)>>,
                  <<"organizationId", VStr("org_1")>>,
                  <<"organizationId", VUndef>>,
                  <<"theme", VStr("dark")>>,
                  <<"Server", VStr("sandbox")>>} :
       \E r \in {set(values, configFile, a[1], a[2])} :
          /\ args' = <<VStr(a[1]), a[2]>>
          /\ thrown' = r.thrown
          /\ values' = r.values
          /\ configFile' = r.file
    /\ returned' = VUndef
    /\ op' = "set"
    /\ UNCHANGED <<resourceType, items, data, value, pagination, options,
                   selector, chalkLevel, out, projected, command, result,
                   stdout, stderr, exitCode, credentials>>

\* config.reset()
CallReset ==
    /\ op = "idle"
    /\ values # <<>>
    /\ values' = DEFAULT_CONFIG
    /\ configFile' = save(DEFAULT_CONFIG)
    /\ args' = <<>>
    /\ returned' = VUndef
    /\ thrown' = ""
    /\ op' = "reset"
    /\ UNCHANGED <<resourceType, items, data, value, pagination, options,
                   selector, chalkLevel, out, projected, command, result,
                   stdout, stderr, exitCode, credentials>>

\* config.get(key)
CallGet ==
    /\ op = "idle"
    /\ values # <<>>
    /\ \E key \in VALID_KEYS :
          /\ args' = <<VStr(key)>>
          /\ returned' = Get(values, key)
    /\ thrown' = ""
    /\ op' = "get"
    /\ UNCHANGED <<resourceType, items, data, value, pagination, options,
                   selector, chalkLevel, out, projected, command, result,
                   stdout, stderr, exitCode, values, configFile, credentials>>

\* auth.login(token, server) of any Auth made for the directory
CallLogin ==
    /\ op = "idle"
    /\ \E token \in {VStr("polar_a"), VStr("polar_b"), VStr("")},
          server \in VALID_SERVERS :
          /\ args' = <<token, server>>
          /\ credentials' = storedJSON(<< <<"accessToken", token>>,
                                          <<"server", server>> >>)
    /\ returned' = VUndef
    /\ thrown' = ""
    /\ op' = "login"
    /\ UNCHANGED <<resourceType, items, data, value, pagination, options,
                   selector, chalkLevel, out, projected, command, result,
                   stdout, stderr, exitCode, values, configFile>>

\* auth.logout(): unlinkSync when the file exists
CallLogout ==
    /\ op = "idle"
    /\ credentials' = VUndef
    /\ args' = <<>>
    /\ returned' = VUndef
    /\ thrown' = ""
    /\ op' = "logout"
    /\ UNCHANGED <<resourceType, items, data, value, pagination, options,
                   selector, chalkLevel, out, projected, command, result,
                   stdout, stderr, exitCode, values, configFile>>

\* auth.getToken(envOverride)
CallGetToken ==
    /\ op = "idle"
    /\ \E envOverride \in {VUndef, VStr(""), VStr("polar_env")} :
          /\ args' = <<envOverride>>
          /\ returned' = authGetToken(credentials, envOverride)
    /\ thrown' = ""
    /\ op' = "getToken"
    /\ UNCHANGED <<resourceType, items, data, value, pagination, options,
                   selector, chalkLevel, out, projected, command, result,
                   stdout, stderr, exitCode, values, configFile, credentials>>

\* auth.isAuthenticated()
CallIsAuthenticated ==
    /\ op = "idle"
    /\ returned' = VBool(authGetToken(credentials, VUndef) # VNull)
    /\ args' = <<>>
    /\ thrown' = ""
    /\ op' = "isAuthenticated"
    /\ UNCHANGED <<resourceType, items, data, value, pagination, options,
                   selector, chalkLevel, out, projected, command, result,
                   stdout, stderr, exitCode, values, configFile, credentials>>

\* the call returns or the process is over; nothing of it is kept but the
\* Config object and the two files
Return ==
    /\ op # "idle"
    /\ op' = "idle"
    /\ resourceType' = ""
    /\ items' = <<>>
    /\ data' = <<>>
    /\ value' = VUndef
    /\ pagination' = NoPagination
    /\ options' = NoOptions
    /\ selector' = SelUndefined
    /\ chalkLevel' = 0
    /\ out' = ""
    /\ projected' = <<>>
    /\ command' = NoCommand
    /\ result' = NoResult
    /\ stdout' = ""
    /\ stderr' = ""
    /\ exitCode' = -1
    /\ args' = <<>>
    /\ returned' = VUndef
    /\ thrown' = ""
    /\ UNCHANGED <<values, configFile, credentials>>

Next ==
    \/ CallSelectFields
    \/ CallFormatCompactList
    \/ CallFormatList
    \/ CallFormatItem
    \/ Return

Spec == Init /\ [][Next]_vars

\* the command path: executeOperation called directly and through the
\* action of a registered operation, and the login command
NextCLI ==
    \/ CallExecuteOperation
    \/ RunCommand
    \/ RunAuthLogin
    \/ Return

SpecCLI == Init /\ [][NextCLI]_vars

\* the value normalisers and the CSV writer called on their own
NextValues ==
    \/ CallFormatValue
    \/ CallTableFormatCellValue
    \/ CallCsvFormatCellValue
    \/ CallFormatCompactItem
    \/ CallFlattenObject
    \/ CallFormatCSV
    \/ CallFormatTSV
    \/ Return

SpecValues == Init /\ [][NextValues]_vars

\* the calls made on a Config object and on Auth objects of one directory
NextStore ==
    \/ NewConfig
    \/ CallSet
    \/ CallReset
    \/ CallGet
    \/ CallLogin
    \/ CallLogout
    \/ CallGetToken
    \/ CallIsAuthenticated
    \/ Return

SpecStore == Init /\ [][NextStore]_vars

(***************************************************************************)
(* Claims about the output engine, checked under Spec.                     *)
(***************************************************************************)
\* the members of OutputFormat, and those among them that are exact
\* serialisations
KnownFormats ==
    {"table", "compact", "json", "jsonl", "csv", "tsv", "id", "count"}

MachineFormats == {"json", "jsonl", "csv", "tsv"}

StartsWith(s, pre) == Len(s) >= Len(pre) /\ SubSeq(s, 1, Len(pre)) = pre

EndsWith(s, suf) ==
    Len(s) >= Len(suf) /\ SubSeq(s, Len(s) - Len(suf) + 1, Len(s)) = suf

\* C1: the output of formatCompactList has a line starting with "next:" if
\* and only if (page-1)*limit + n < totalCount, n being the number of items
\* returned; that line is then the last one and reads
\* "next: polar <type> list --page <page+1> --limit <limit>".
C1_NextHintRule ==
    (op = "formatCompactList"
       \/ (op = "formatList" /\ options.format = "compact")) =>
        LET lines == Split(out, "\n")
            more == (pagination.page - 1) * pagination.limit + Len(items)
                        < pagination.totalCount
            hintLines == {i \in 1..Len(lines) : StartsWith(lines[i], "next:")}
        IN  /\ (hintLines # {}) <=> more
            /\ more =>
                 /\ hintLines = {Len(lines)}
                 /\ lines[Len(lines)] =
                      "next: polar " \o resourceType \o " list --page "
                      \o IntStr(pagination.page + 1) \o " --limit "
                      \o IntStr(pagination.limit)

C1_Witness ==
    /\ op = "formatCompactList"
    /\ resourceType = "products"
    /\ pagination = [page |-> 2, limit |-> 1, totalCount |-> 3]
    /\ Len(items) = 1
    /\ EndsWith(out, "\nnext: polar products list --page 3 --limit 1")

\* C2: the first line of formatCompactList is the header: the whole output
\* is "<type> 0/0" when totalCount = 0 and no items are returned, and the
\* first line is "<type> <start>-<end>/<totalCount> page=<page>" otherwise,
\* with start = (page-1)*limit + 1 and end = start + n - 1.
C2_Header ==
    op = "formatCompactList" =>
        LET start == (pagination.page - 1) * pagination.limit + 1
            end == start + Len(items) - 1
        IN  IF pagination.totalCount = 0 /\ Len(items) = 0
            THEN out = resourceType \o " 0/0"
            ELSE Split(out, "\n")[1] =
                   resourceType \o " " \o IntStr(start) \o "-" \o IntStr(end)
                   \o "/" \o IntStr(pagination.totalCount)
                   \o " page=" \o IntStr(pagination.page)

C2_Witness ==
    /\ op = "formatCompactList"
    /\ pagination = [page |-> 2, limit |-> 2, totalCount |-> 3]
    /\ Len(items) = 1
    /\ StartsWith(out, "products 3-3/3 page=2\n")

C4_MinimalSelector ==
    (op = "selectFields" /\ selector.kind = "minimal") =>
        LET priority == <<"name", "email", "slug", "displayKey", "key",
                          "url", "label">>
            held == {i \in 1..Len(priority) :
                        /\ Has(data, priority[i])
                        /\ Get(data, priority[i]) # VNull
                        /\ Get(data, priority[i]) # VUndef}
        IN  /\ Len(projected) <= 2
            /\ projected[1] = <<"id", Get(data, "id")>>
            /\ IF held = {} THEN Len(projected) = 1
               ELSE LET i == CHOOSE h \in held : \A g \in held : h <= g
                    IN  /\ Len(projected) = 2
                        /\ projected[2] =
                             <<priority[i], Get(data, priority[i])>>

C4_Witness ==
    /\ op = "selectFields"
    /\ selector = SelMinimal
    /\ data = Item2
    /\ projected = << <<"id", VStr("cus_2")>>, <<"email", VStr("a@b.co")>> >>

\* C5: formatList renders the raw items for json, jsonl, csv and tsv when
\* options.fields is absent and the items projected to options.fields when
\* it is given; for table and compact it always renders the projected items
\* (to options.fields, or to the default fields of the resource type).
C5_ListProjectionRule ==
    op = "formatList" =>
        LET sel == IF options.fields.kind = "undefined"
                   THEN SelList(getDefaultFields(resourceType))
                   ELSE options.fields
            proj == [i \in 1..Len(items) |-> selectFields(items[i], sel)]
            shown == IF options.format \in MachineFormats
                        /\ options.fields.kind = "undefined"
                     THEN items ELSE proj
        IN  /\ options.format = "json" =>
                 out = formatJSONList(shown, pagination)
            /\ options.format = "jsonl" => out = formatJSONL(shown)
            /\ options.format = "csv" => out = formatCSV(shown)
            /\ options.format = "tsv" => out = formatTSV(shown)
            /\ options.format = "table" =>
                 out = formatTable(shown, options.noColor, chalkLevel)
            /\ options.format = "compact" =>
                 out = formatCompactList(resourceType, shown, pagination,
                                         options.fields)

\* a raw item keeps description, which is no default field of product
C5_Witness ==
    /\ op = "formatList"
    /\ options.format = "csv"
    /\ options.fields = SelUndefined
    /\ resourceType = "product"
    /\ items = <<Item1>>
    /\ StartsWith(out, "id,name,description,isRecurring,prices\n")

\* C6: formatItem renders the raw item, all its fields, in the encoding of
\* the format, for each of json, jsonl, csv and tsv when neither
\* options.fields nor options.detail is requested.
C6_ItemMachineFormatsRaw ==
    (/\ op = "formatItem"
     /\ options.format \in MachineFormats
     /\ options.fields.kind = "undefined"
     /\ ~options.detail) =>
        /\ options.format = "json" => out = formatJSON(data)
        /\ options.format = "jsonl" => out = formatJSONL(<<data>>)
        /\ options.format = "csv" => out = formatCSV(<<data>>)
        /\ options.format = "tsv" => out = formatTSV(<<data>>)

\* C9: with a format outside OutputFormat, formatList and formatItem return
\* the string they return for the format compact on the same arguments.
C9_UnknownFormatIsCompact ==
    /\ (op = "formatList" /\ options.format \notin KnownFormats) =>
          /\ out = formatList(resourceType, items, pagination,
                              [options EXCEPT !.format = "compact"],
                              chalkLevel)
          /\ StartsWith(out, resourceType \o " ")
    /\ (op = "formatItem" /\ options.format \notin KnownFormats) =>
          /\ out = formatItem(resourceType, data,
                              [options EXCEPT !.format = "compact"],
                              chalkLevel)
          /\ StartsWith(out, resourceType \o " ")

C9_Witness ==
    /\ op = "formatList"
    /\ options.format = "yaml"
    /\ resourceType = "products"
    /\ Len(items) = 2
    /\ StartsWith(out, "products 1-2/")

\* C10: the string formatList or formatItem returns never ends with a
\* newline.
C10_NoTrailingNewline ==
    op \in {"formatList", "formatItem"} => ~EndsWith(out, "\n")

\* C30: with an explicit fields list, the key=value pairs on the line of an
\* item in the compact output of formatList are the pairs, in the same
\* order, that formatItem gives in compact for that item with the same
\* fields (detail unset); a selected field holding a nested object shows as
\* its dotted leaves in both.
C30_SamePairsInListAndItem ==
    (op = "formatList" /\ options.format = "compact"
     /\ options.fields.kind = "list" /\ ~options.detail)
       => LET lines == Split(out, "\n")
          IN  \A i \in 1..Len(items) :
                 LET single == formatItem(resourceType, items[i], options,
                                          chalkLevel)
                     pairs == SubSeq(single, Len(resourceType) + 2,
                                     Len(single))
                 IN  lines[i + 1] = "  [" \o IntStr(i) \o "] " \o pairs

C16_DetailIsItemOnly ==
    /\ (op = "formatItem" /\ options.detail)
          => out = CASE options.format = "id" ->
                          (IF Get(data, "id").t \in {"null", "undefined"}
                           THEN "" ELSE JSString(Get(data, "id")))
                     [] options.format = "json" -> formatJSON(data)
                     [] options.format = "csv" -> formatCSV(<<data>>)
                     [] options.format = "tsv" -> formatTSV(<<data>>)
                     [] options.format = "table" ->
                          formatTableItem(resourceType, data,
                                          options.noColor, chalkLevel)
                     [] OTHER ->
                          formatCompactItem(resourceType, data, SelUndefined)
    /\ op = "formatList"
          => out = formatList(resourceType, items, pagination,
                              [options EXCEPT !.detail = ~options.detail],
                              chalkLevel)

C16_Witness ==
    /\ op = "formatItem"
    /\ options.detail
    /\ options.fields = SelList(<<"id", "name">>)
    /\ options.format = "compact"
    /\ data = Item1
    /\ out = "product id=prod_1 name=\"Pro Plan\" description=Best "
             \o "isRecurring=true prices=1"

(***************************************************************************)
(* Claims about the command path, checked under SpecCLI.                   *)
(***************************************************************************)
\* C7: a list operation run through executeOperation for a resource that
\* has a curated default field list, with the format compact or table and
\* no fields option, renders each item with every field of the curated
\* list that the item holds, in the order of the list.
C7_ListShowsCuratedFields ==
    (/\ op \in {"executeOperation", "command"}
     /\ result.called
     /\ ~result.rejected
     /\ result.exitCode = 0
     /\ command.operation.type = "list"
     /\ result.options.format \in {"compact", "table"}
     /\ result.options.fields.kind = "undefined"
     /\ command.resource.name \in DOMAIN RESOURCE_DEFAULT_FIELDS) =>
        LET curated == SelList(RESOURCE_DEFAULT_FIELDS[command.resource.name])
            shown == [i \in 1..Len(result.items) |->
                        selectFields(result.items[i], curated)]
        IN  result.stdout =
               IF result.options.format = "compact"
               THEN formatCompactList(command.resource.plural, shown,
                                      result.pagination, SelUndefined)
               ELSE formatTable(shown, result.options.noColor, chalkLevel)

\* C8: through the command line, --fields all and --fields minimal reach
\* selectFields as the selectors "all" and "minimal": a list shown as json
\* holds every field of each item for all, and id plus the first
\* identifying field for minimal.
C8_SpecialSelectorsHonoured ==
    (/\ op = "command"
     /\ result.called
     /\ command.globalOpts.fields \in {VStr("all"), VStr("minimal")}) =>
        LET wanted == IF command.globalOpts.fields = VStr("all")
                      THEN SelAll ELSE SelMinimal
            shown == [i \in 1..Len(result.items) |->
                        selectFields(result.items[i], wanted)]
        IN  /\ result.options.fields = wanted
            /\ (/\ command.operation.type = "list"
                /\ result.exitCode = 0
                /\ result.options.format = "json") =>
                   result.stdout = formatJSONList(shown, result.pagination)


\* C17: the output format in effect is the value of --output when given,
\* else the value of POLAR_OUTPUT when set, else table on a terminal and
\* compact otherwise; a lower source never overrides a higher one.
C17_FormatPrecedence ==
    (op = "command" /\ result.called)
       => result.options.format =
             IF command.globalOpts.output # "" THEN command.globalOpts.output
             ELSE IF command.env.POLAR_OUTPUT # ""
             THEN command.env.POLAR_OUTPUT
             ELSE IF command.isTTY THEN "table" ELSE "compact"

C17_Witness ==
    /\ op = "command"
    /\ result.called
    /\ command.globalOpts.output = "csv"
    /\ command.env.POLAR_OUTPUT = "json"
    /\ command.isTTY
    /\ result.options.format = "csv"
    /\ StartsWith(stdout, "id,name")

\* C18: with --quiet the compact rendering of a list holds no "next:" hint
\* line, even when more pages remain.
C18_QuietHidesNextHint ==
    (op = "command" /\ command.globalOpts.quiet /\ result.called
     /\ command.operation.type = "list"
     /\ result.options.format = "compact")
       => ~Includes(stdout, "\nnext: ")

\* C19: for every outcome executeOperation resolves to, a failure (the SDK
\* method is missing, the SDK call throws, the operation type is unknown)
\* has stdout empty, stderr non-empty and exitCode 1, and every other
\* outcome is either such a failure or has stderr empty and exitCode 0.
C19_ErrorTextOffDataStream ==
    (op \in {"executeOperation", "command"} /\ result.called
     /\ ~result.rejected)
       => LET method == Prop(getSDKNamespace(command.client,
                                             command.resource).value,
                             command.operation.sdkMethod)
              failed == \/ ~Truthy(method)
                        \/ method.s = "throw"
                        \/ command.operation.type \notin OperationTypes
              failure == /\ result.stdout = ""
                         /\ result.stderr # ""
                         /\ result.exitCode = 1
              success == result.stderr = "" /\ result.exitCode = 0
          IN  /\ failed => failure
              /\ failure \/ success

C19_Witness ==
    /\ op = "executeOperation"
    /\ result.called
    /\ ~result.rejected
    /\ Prop(getSDKNamespace(command.client, command.resource).value,
            command.operation.sdkMethod).s = "throw"
    /\ result.stdout = ""
    /\ StartsWith(result.stderr, "error code=404 type=ResourceNotFound")
    /\ result.exitCode = 1

\* C20: without a terminal every error message written to stderr holds a
\* type=<ErrorType> token: what executeOperation leaves for stderr on a
\* failure, and what the process writes when the token is missing, when
\* auth login is given no --token and when confirmation is required.
C20_ErrorsCarryType ==
    /\ (op = "executeOperation" /\ ~command.isTTY /\ result.stderr # "")
          => Includes(result.stderr, " type=")
    /\ (op \in {"command", "authLogin"} /\ ~command.isTTY /\ stderr # "")
          => Includes(stderr, " type=")

\* C21: without a terminal an operation that requires confirmation, run
\* without --yes, is never executed: no SDK method is called, the
\* ConfirmationRequired error is written to stderr and the exit code is 1;
\* with --yes the SDK method is called.  (Without credentials the
\* Unauthorized error comes first, and nothing is called either.)
C21_NonTTYConfirmation ==
    (op = "command" /\ ~command.isTTY /\ command.operation.confirmRequired)
       => IF ~command.globalOpts.yes
          THEN /\ ~result.called
               /\ result.calls = <<>>
               /\ stdout = ""
               /\ exitCode = 1
               /\ Truthy(getToken(command.env))
                     => StartsWith(stderr, "error type=ConfirmationRequired")
          ELSE Truthy(getToken(command.env))
                  => /\ result.called
                     /\ Len(result.calls) = 1
                     /\ result.calls[1].method = command.operation.sdkMethod

C21_Witness ==
    /\ op = "command"
    /\ ~command.isTTY
    /\ command.operation.type = "delete"
    /\ command.operation.confirmRequired
    /\ ~command.globalOpts.yes
    /\ Truthy(getToken(command.env))
    /\ StartsWith(stderr, "error type=ConfirmationRequired")
    /\ exitCode = 1

\* C22: on a terminal an operation that requires confirmation, run without
\* --yes, calls the SDK method only after the user has answered a
\* confirmation prompt with yes.  The program has no prompt, so no answer
\* is ever given and the method must not be called.
C22_TTYConfirmation ==
    (op = "command" /\ command.isTTY /\ command.operation.confirmRequired
     /\ ~command.globalOpts.yes)
       => result.calls = <<>>

\* C23: when neither POLAR_ACCESS_TOKEN nor the stored credential gives a
\* non-empty token, a resource command writes the Unauthorized error (in the
\* rendering of the mode, compact without a terminal) to stderr, exits with
\* code 1, and executeOperation is never entered: the client is not used
\* and no SDK method is called.
C23_NoCredentialsNoCall ==
    (op = "command" /\ ~Truthy(command.env.POLAR_ACCESS_TOKEN)
     /\ ~Truthy(command.env.storedToken))
       => /\ ~result.called
          /\ result.calls = <<>>
          /\ stdout = ""
          /\ stderr = renderError(CLIError("Unauthorized", VNum(401), VUndef,
                                            VUndef, VUndef,
                                            VStr("No access token found")),
                                   command.isTTY) \o "\n"
          /\ exitCode = 1

C23_Witness ==
    /\ op = "command"
    /\ ~command.isTTY
    /\ Nullish(command.env.POLAR_ACCESS_TOKEN)
    /\ Nullish(command.env.storedToken)
    /\ StartsWith(stderr, "error code=401 type=Unauthorized")
    /\ exitCode = 1

\* C28: the header "<type> <start>-<end>/<total> page=<n>" of a compact list
\* produced by a list operation is a well-formed range, start <= end and
\* end <= total, for every page, limit, number of items and totalCount that
\* executeOperation passes to formatList.
C28_HeaderRange ==
    (op \in {"executeOperation", "command"} /\ result.called
     /\ command.operation.type = "list" /\ result.exitCode = 0
     /\ result.options.format = "compact"
     /\ ~(result.pagination.totalCount = 0 /\ Len(result.items) = 0))
       => LET pg == result.pagination
              start == (pg.page - 1) * pg.limit + 1
              end == start + Len(result.items) - 1
          IN  /\ StartsWith(result.stdout,
                            result.type \o " " \o IntStr(start) \o "-"
                            \o IntStr(end) \o "/" \o IntStr(pg.totalCount)
                            \o " page=" \o IntStr(pg.page))
              /\ start <= end
              /\ end <= pg.totalCount

\* C29: executeOperation never rejects: whatever the client, the resource,
\* the operation and the options, it resolves to a CommandResult whose
\* exitCode is 0 or 1.
C29_NeverRejects ==
    (op \in {"executeOperation", "command"} /\ result.called)
       => /\ ~result.rejected
          /\ result.exitCode \in {0, 1}

(***************************************************************************)
(* Claims about the value normalisers and the CSV writer, checked under    *)
(* SpecValues.                                                             *)
(***************************************************************************)
\* the text a compact value carries: formatValue puts a value with a space
\* between double quotes
CompactText(v, rendered) ==
    IF Includes(v, " ") THEN SubSeq(rendered, 2, Len(rendered) - 1)
    ELSE rendered

\* C11: normalising a scalar twice gives what normalising it once gives:
\* the normaliser of each format (compact formatValue, table
\* formatCellValue, CSV formatCellValue) maps its own output to itself.
C11_NormalizationIdempotent ==
    /\ op = "formatValue" => formatValue(VStr(out)) = out
    /\ (op = "tableFormatCellValue" /\ value \in ScalarValues)
          => tableFormatCellValue(VStr(out)) = out
    /\ (op = "csvFormatCellValue" /\ value \in ScalarValues)
          => csvFormatCellValue(VStr(out)) = out

\* C12 as stated: a string longer than the maximum of the format (80 in
\* compact, 40 in a table cell) is rendered as its first max-3 characters
\* and "...", max characters in all; a string of at most max characters is
\* rendered whole.  (A timestamp in a table cell falls under the date rule.)
C12_TruncatedToMax ==
    /\ (op = "formatValue" /\ value.t = "string")
          => LET text == CompactText(value.s, out)
             IN  IF Len(value.s) > MAX_STRING_LENGTH
                 THEN /\ text = Slice(value.s, MAX_STRING_LENGTH - 3) \o "..."
                      /\ Len(text) = MAX_STRING_LENGTH
                 ELSE text = value.s
    /\ (op = "tableFormatCellValue" /\ value.t = "string"
        /\ ~isISOTimestamp(value))
          => IF Len(value.s) > MAX_VALUE_LENGTH
             THEN /\ out = Slice(value.s, MAX_VALUE_LENGTH - 3) \o "..."
                  /\ Len(out) = MAX_VALUE_LENGTH
             ELSE out = value.s

\* C12 amended: compact keeps the first 80 characters of a longer string and
\* adds "...", 83 characters in all; a table cell keeps the first 37 and
\* adds "...", 40 in all; a string of at most max characters is rendered
\* whole in both.
C12_Truncation ==
    /\ (op = "formatValue" /\ value.t = "string")
          => LET text == CompactText(value.s, out)
             IN  IF Len(value.s) > MAX_STRING_LENGTH
                 THEN /\ text = Slice(value.s, MAX_STRING_LENGTH) \o "..."
                      /\ Len(text) = MAX_STRING_LENGTH + 3
                 ELSE text = value.s
    /\ (op = "tableFormatCellValue" /\ value.t = "string"
        /\ ~isISOTimestamp(value))
          => IF Len(value.s) > MAX_VALUE_LENGTH
             THEN /\ out = Slice(value.s, MAX_VALUE_LENGTH - 3) \o "..."
                  /\ Len(out) = MAX_VALUE_LENGTH
             ELSE out = value.s

C12_Witness ==
    /\ op = "formatValue"
    /\ value = VStr(Repeat("x", MAX_STRING_LENGTH + 1))
    /\ out = Repeat("x", MAX_STRING_LENGTH) \o "..."

\* the compact line of an item whose only array shows as count
CompactArrayLine(ty, d, count) ==
    IF Has(d, "benefits")
    THEN ty \o " id=prod_1 benefits=" \o count
    ELSE ty \o " customer.tags=" \o count

RECURSIVE ScanCSV(_, _, _, _, _, _, _)
ScanCSV(text, delimiter, i, quoted, cell, record, records) ==
    IF i > Len(text) THEN Append(records, Append(record, cell))
    ELSE LET c == At(text, i)
         IN  IF c = "\""
             THEN ScanCSV(text, delimiter, i + 1, ~quoted, cell \o c, record,
                          records)
             ELSE IF ~quoted /\ c = delimiter
             THEN ScanCSV(text, delimiter, i + 1, quoted, "",
                          Append(record, cell), records)
             ELSE IF ~quoted /\ c = "\n"
             THEN ScanCSV(text, delimiter, i + 1, quoted, "", <<>>,
                          Append(records, Append(record, cell)))
             ELSE ScanCSV(text, delimiter, i + 1, quoted, cell \o c, record,
                          records)

RecordsOf(text, delimiter) == ScanCSV(text, delimiter, 1, FALSE, "", <<>>, <<>>)

\* the text between the quotes of a quoted cell with each "" read as one
\* quote; ok is FALSE when a quote stands alone
RECURSIVE Undouble(_)
Undouble(s) ==
    IF Len(s) = 0 THEN [ok |-> TRUE, text |-> ""]
    ELSE IF At(s, 1) = "\""
    THEN IF Len(s) >= 2 /\ At(s, 2) = "\""
         THEN LET rest == Undouble(SubSeq(s, 3, Len(s)))
              IN  [ok |-> rest.ok, text |-> "\"" \o rest.text]
         ELSE [ok |-> FALSE, text |-> ""]
    ELSE LET rest == Undouble(SubSeq(s, 2, Len(s)))
         IN  [ok |-> rest.ok, text |-> At(s, 1) \o rest.text]

\* the text of a cell as written: a quoted cell loses its quotes, a bare
\* cell holds no quote
Unquote(cell) ==
    IF StartsWith(cell, "\"")
    THEN IF Len(cell) >= 2 /\ EndsWith(cell, "\"")
         THEN Undouble(SubSeq(cell, 2, Len(cell) - 1))
         ELSE [ok |-> FALSE, text |-> ""]
    ELSE [ok |-> ~Includes(cell, "\""), text |-> cell]

\* the keys of the items, each at the place of its first occurrence
RECURSIVE AllKeys(_)
AllKeys(its) ==
    IF Len(its) = 0 THEN <<>> ELSE Keys(its[1]) \o AllKeys(Tail(its))

FirstSeenKeys(its) ==
    LET ks == AllKeys(its)
        firsts == SelectSeq([i \in 1..Len(ks) |-> <<i, ks[i]>>],
                            LAMBDA p : \A j \in 1..(p[1] - 1) : ks[j] # p[2])
    IN  [i \in 1..Len(firsts) |-> firsts[i][2]]

ActiveDelimiter == IF op = "formatTSV" THEN "\t" ELSE ","

\* the texts the records of items carry: the column names, then for each
\* item the normalised value of each column
CellTexts(its) ==
    LET cols == FirstSeenKeys(its)
    IN  <<cols>> \o [r \in 1..Len(its) |->
                       [c \in 1..Len(cols) |->
                          csvFormatCellValue(Get(its[r], cols[c]))]]

\* C14: every cell of formatCSV/formatTSV, header cells included, is written
\* between double quotes with its own quotes doubled exactly when it holds
\* the active delimiter, a line break or a double quote, and as it is
\* otherwise; reading the output back gives the text of every cell.
C14_CellQuoting ==
    (op \in {"formatCSV", "formatTSV"} /\ Len(items) >= 1
     /\ Len(FirstSeenKeys(items)) >= 1)
       => LET texts == CellTexts(items)
              written == RecordsOf(out, ActiveDelimiter)
          IN  /\ Len(written) = Len(texts)
              /\ \A r \in 1..Len(texts) :
                    /\ Len(written[r]) = Len(texts[r])
                    /\ \A c \in 1..Len(texts[r]) :
                          LET x == texts[r][c]
                              w == written[r][c]
                              special == \/ Includes(x, ActiveDelimiter)
                                         \/ Includes(x, "\n")
                                         \/ Includes(x, "\"")
                          IN  /\ Unquote(w) = [ok |-> TRUE, text |-> x]
                              /\ StartsWith(w, "\"") <=> special
                              /\ ~special => w = x

C14_Witness ==
    /\ op = "formatCSV"
    /\ Len(items) = 2
    /\ out = "id,name,note\na,\"Plan, Pro\",\nb,,\"say \"\"hi\"\"\""

\* C15: formatCSV/formatTSV on n >= 1 items gives a header record and then
\* one record per item in the order of the items; the columns are the keys
\* of the items in first-seen order, every record has one cell per column,
\* and a key the item lacks or holds as null gives an empty cell.  On no
\* items the result is the empty string.
C15_Records ==
    op \in {"formatCSV", "formatTSV"}
       => IF Len(items) = 0 THEN out = ""
          ELSE LET cols == FirstSeenKeys(items)
                   written == RecordsOf(out, ActiveDelimiter)
               IN  /\ Len(written) = Len(items) + 1
                   /\ \A r \in 1..Len(written) :
                         IF Len(cols) = 0 THEN written[r] = <<"">>
                         ELSE Len(written[r]) = Len(cols)
                   /\ \A c \in 1..Len(cols) :
                         /\ Unquote(written[1][c]).text = cols[c]
                         /\ \A r \in 1..Len(items) :
                               LET v == Get(items[r], cols[c])
                               IN  Unquote(written[r + 1][c]).text =
                                      IF v.t \in {"null", "undefined"}
                                      THEN ""
                                      ELSE csvFormatCellValue(v)

C15_Witness ==
    /\ op = "formatTSV"
    /\ Len(items) = 2
    /\ out = "k,1\tid\ttags\t\"q\"\"k\"\t\"t\tk\"\n"
             \o "\"x\ty\"\t\"l1\nl2\"\t\t\t\n\t\t[0]\ttrue\t5"

\* the reference flattener, as a work list of (dotted key, value) pairs: the
\* first pair is dropped when its value is null, undefined or "", replaced
\* by the pairs of its children when it is an object, and emitted otherwise
RECURSIVE ReferenceFlatten(_)
ReferenceFlatten(work) ==
    IF work = <<>> THEN <<>>
    ELSE LET k == Head(work)[1]
             v == Head(work)[2]
         IN  CASE v \in {VNull, VUndef, VStr("")} ->
                     ReferenceFlatten(Tail(work))
               [] v.t = "object" ->
                     ReferenceFlatten(
                         [i \in 1..Len(v.e) |->
                             <<k \o "." \o v.e[i][1], v.e[i][2]>>]
                         \o Tail(work))
               [] v.t = "array" ->
                     << <<k, VNum(Len(v.e))>> >>
                     \o ReferenceFlatten(Tail(work))
               [] OTHER ->
                     << <<k, IF isISOTimestamp(v)
                             THEN VStr(SubSeq(v.s, 1, 10)) ELSE v>> >>
                     \o ReferenceFlatten(Tail(work))

\* C27: flattenObject equals the reference flattener on every nested object:
\* pairs in depth-first pre-order of the key order, no pair for null,
\* undefined or "" at any depth, (dotted key, length) for an array, only the
\* leaves of a nested object under "parent.child" names, the first 10
\* characters of an ISO date-time, any other value unchanged
C27_FlattenIsReference ==
    op = "flattenObject" =>
        /\ projected = ReferenceFlatten(data)
        /\ \A i \in 1..Len(projected) :
              /\ projected[i][2] \notin {VNull, VUndef, VStr("")}
              /\ projected[i][2].t \notin {"object", "array"}
              /\ projected[i][1] \notin {"b", "b.d"}

C27_Witness ==
    /\ op = "flattenObject"
    /\ data = << <<"b", VObj(<< <<"c", VStr("")>>,
                                <<"d", VObj(<< <<"e", VArr(<<>>)>>,
                                               <<"g", VNum(7)>> >>)>> >>)>>,
                 <<"a", VStr("2024-01-15T10:30:00.000Z")>> >>
    /\ projected = << <<"b.d.e", VNum(0)>>, <<"b.d.g", VNum(7)>>,
                      <<"a", VStr("2024-01-15")>> >>

(***************************************************************************)
(* Claims about the stored configuration and credentials, checked under    *)
(* SpecStore.                                                              *)
(***************************************************************************)
\* the arguments of the set call are ones the claim calls invalid
InvalidSetArgs ==
    \/ args[1] \notin {VStr("organizationId"), VStr("server"), VStr("output"),
                       VStr("defaultLimit"), VStr("noColor")}
    \/ /\ args[1] = VStr("server")
       /\ args[2] \notin {VStr("production"), VStr("sandbox")}

\* C25: Config.set called with a key outside organizationId, server, output,
\* defaultLimit, noColor, or with key server and a value other than
\* production or sandbox, throws, and the step leaves the in-memory values
\* and the config file as they were; so, starting from no config file, the
\* server held in memory, returned by get and written to the file is always
\* production or sandbox
C25_SetRejectsInvalid ==
    /\ [](op = "set" /\ InvalidSetArgs => thrown # "")
    /\ [][op' = "set" /\ thrown' # ""
            => values' = values /\ configFile' = configFile]_vars
    /\ [](values # <<>>
            => Get(values, "server") \in {VStr("production"), VStr("sandbox")})
    /\ [](configFile # VUndef
            => Get(configFile.e, "server")
                  \in {VStr("production"), VStr("sandbox")})
    /\ [](op = "get" /\ args = <<VStr("server")>>
            => returned \in {VStr("production"), VStr("sandbox")})

C25_Witness ==
    /\ op = "set"
    /\ args = <<VStr("server"), VStr("staging")>>
    /\ thrown = "Invalid server value: staging. Must be 'production' or 'sandbox'."
    /\ Get(values, "server") = VStr("sandbox")
    /\ configFile # VUndef
    /\ Get(configFile.e, "server") = VStr("sandbox")
    /\ Get(configFile.e, "defaultLimit") = VNum(50)

\* the token credentials.json holds, null when there is no file
StoredToken ==
    IF credentials = VUndef THEN VNull
    ELSE Get(credentials.e, "accessToken")

\* C26: login(token) leaves the token stored, logout leaves nothing stored
\* and is a no-op when nothing was, and no other call touches what is
\* stored; getToken() returns the stored token, null when there is none,
\* isAuthenticated tells whether there is one, and getToken(envOverride)
\* with a non-empty override returns the override whatever is stored
C26_TokenOfLastLogin ==
    /\ [][/\ op' = "login" => StoredToken' = args'[1]
          /\ op' = "logout" => StoredToken' = VNull /\ thrown' = ""
          /\ op' = "logout" /\ credentials = VUndef => credentials' = VUndef
          /\ op' \notin {"login", "logout"} => StoredToken' = StoredToken]_vars
    /\ [](op = "getToken" /\ args[1] \in {VUndef, VStr("")}
            => returned = StoredToken)
    /\ [](op = "getToken" /\ args[1].t = "string" /\ args[1].s # ""
            => returned = args[1])
    /\ [](op = "isAuthenticated" => returned = VBool(StoredToken # VNull))

C26_Witness ==
    /\ op = "getToken"
    /\ args = <<VStr("polar_env")>>
    /\ StoredToken = VStr("polar_b")
    /\ returned = VStr("polar_env")

====
